---- MODULE Spec2Model ----
(***************************************************************************)
(* State-machine model of the privacy router (rickkdev/geist):             *)
(*   - HPKEService replay ledger, key pairs and their rotation             *)
(*                                    (llm-router/services/hpke_service.py)*)
(*   - CircuitBreaker                 (router/services/circuit_breaker.py) *)
(*   - RateLimiter                    (llm-router/services/rate_limiter.py)*)
(*   - HealthMonitor                  (router/services/health_monitor.py)  *)
(*   - InferenceService.stream_inference                                   *)
(*                                    (router/services/inference_service.py)*)
(*   - chat_endpoint / event_stream   (llm-router/main.py)                 *)
(* Time is in whole seconds.  The clock advances by jumps drawn from small *)
(* sets that hit the boundaries of every window the code compares against. *)
(***************************************************************************)
EXTENDS Integers, Sequences, FiniteSets, TLC

\* ------------------------------------------------------------------------
\* Program constants (values as written in the source)
\* ------------------------------------------------------------------------
DEFAULT_REQUEST_TTL_SECONDS == 60
CLOCK_SKEW_SECONDS == 30
RETENTION_SECONDS == 3600
DEFAULT_CIRCUIT_BREAKER_THRESHOLD == 5
CIRCUIT_RESET_SECONDS == 30
HALF_OPEN_SUCCESSES == 3
WINDOW_SECONDS == 60
BURST_WINDOW_SECONDS == 10
CLEANUP_EVERY == 100
REQUEST_BUDGET_SECONDS == 300
HEALTHY_THRESHOLD == 2
UNHEALTHY_THRESHOLD == 3

\* ------------------------------------------------------------------------
\* Bounds of the model
\* ------------------------------------------------------------------------
\* the instant the service is constructed (time.time() is never 0)
StartInstant == 10000

\* number of clock jumps in one behaviour of the envelope service
MaxLedgerTicks == 2

\* number of clock jumps and of method calls in one behaviour of the breaker
MaxBreakerTicks == 2
MaxBreakerCalls == 9

\* a CIRCUIT_BREAKER_THRESHOLD configured below the default
SmallThreshold == 2

\* RATE_LIMIT_PER_MINUTE and RATE_LIMIT_BURST, configured small
SmallPerMinute == 3
SmallBurst == 1

\* /api/chat requests in one behaviour, token lines per upstream stream, and
\* clock jumps in one behaviour of the request pipeline
MaxRequests == 3
MaxTokens == 2
MaxChatTicks == 1
\* allow_request calls and clock jumps in one behaviour of the rate limiter
\* on its own, and its burst limit there (below the per-minute limit)
MaxLimiterCalls == 5
MaxLimiterTicks == 3
LimiterBurst == 2
\* calls on the key pairs and clock jumps in one behaviour of the rotation
MaxKeyCalls == 6
MaxKeyTicks == 2
\* restarts of the process in one behaviour
MaxRestarts == 1

\* rounds of probes, and calls of get_healthy_endpoint
MaxHealthRounds == 5
MaxEndpointCalls == 4

\* the largest sequence number of a chunk
MaxSequence == 6

\* handlers that can be in progress at the same time
Slots == {1, 2}

\* the runs explored: requests that overlap, or requests one after the
\* other over a longer time
Concurrent == [handlers |-> 2, ticks |-> MaxChatTicks]
OneAtATime == [handlers |-> 1, ticks |-> MaxChatTicks + 1]
Workloads == {Concurrent, OneAtATime}
ClientAddresses == {"10.0.0.7"}
DeviceKeys == {"dev-A"}

RequestIds == {"req-1", "req-2"}

\* what the ciphertext of an envelope holds: a payload that decodes and
\* parses, bytes that do not, or a well-formed payload with no messages
Payloads == {"ok", "garbage", "no_messages"}
\* decrypt_request tells only the first two apart
LedgerPayloads == {"ok", "garbage"}

\* REQUEST_TTL_SECONDS is a setting: the default, and a deployment that
\* configures a TTL as long as the ledger retention
TtlChoices == {DEFAULT_REQUEST_TTL_SECONDS, RETENTION_SECONDS}

VARIABLES
    now,                  \* wall clock (datetime.now / time.time), seconds
    ticks,                \* number of clock jumps taken
    settings,             \* the Settings instance (the fields the model reads)
    workload,             \* what this run asks of the service (see Workloads)
    chunk_call,           \* a call of encrypt_chunk: its arguments and result
    health_monitor,       \* the HealthMonitor instance
    hmHist,               \* history: the probes and the endpoints handed out
    hpke_service,         \* the HPKEService instance: its keys
    key_files,            \* the private-key file and the public-key file
    keyHist,              \* history: the keys drawn, the rotations, the
                          \* latest call on the keys and what it saw
    seen_request_ids,     \* HPKEService.seen_request_ids: id -> instant
    lastCall,             \* the most recent decrypt_request call and its outcome
    acceptLog,            \* history: the envelopes decrypt_request accepted
    dupAccept,            \* history: an envelope was accepted a second time
    circuit_breaker,      \* the CircuitBreaker instance
    cbHist,               \* history: the breaker's last call and failure run
    rate_limiter,         \* the RateLimiter instance
    rlHist,               \* history: allow_request's calls and admissions
    inference_service,    \* the InferenceService instance (client, telemetry)
    requests              \* per /api/chat request: the handler's locals,
                          \* position, response and upstream stream

ledgerVars == <<seen_request_ids, lastCall, acceptLog, dupAccept>>
breakerVars == <<circuit_breaker, cbHist>>
healthVars == <<health_monitor, hmHist>>
keyVars == <<hpke_service, key_files, keyHist>>
limiterVars == <<rate_limiter, rlHist>>
chatVars == <<limiterVars, inference_service, requests>>
clockVars == <<now, ticks>>
configVars == <<settings, workload>>
vars == <<now, ticks, settings, workload, chunk_call, health_monitor, hmHist, hpke_service, key_files, keyHist, seen_request_ids, lastCall, acceptLog,
          dupAccept, circuit_breaker, cbHist, rate_limiter, rlHist,
          inference_service, requests>>

REQUEST_TTL_SECONDS == settings.REQUEST_TTL_SECONDS
CIRCUIT_BREAKER_THRESHOLD == settings.CIRCUIT_BREAKER_THRESHOLD
RATE_LIMIT_PER_MINUTE == settings.RATE_LIMIT_PER_MINUTE
RATE_LIMIT_BURST == settings.RATE_LIMIT_BURST
ENABLE_CLIENT_DISCONNECT_CANCELLATION == settings.ENABLE_CLIENT_DISCONNECT_CANCELLATION

\* Settings with the given TTL and breaker threshold
SettingsWith(ttl, threshold, cancellation) ==
    [REQUEST_TTL_SECONDS |-> ttl,
     CIRCUIT_BREAKER_THRESHOLD |-> threshold,
     RATE_LIMIT_PER_MINUTE |-> SmallPerMinute,
     RATE_LIMIT_BURST |-> SmallBurst,
     ENABLE_CLIENT_DISCONNECT_CANCELLATION |-> cancellation]

\* ------------------------------------------------------------------------
\* HPKEService._check_replay_protection
\* ------------------------------------------------------------------------
REPLAY_ERROR == "Request failed replay protection"
DECRYPT_ERROR == "Decryption failed"
ACCEPTED == "accepted"

\* a bug: the comparison with the TTL is not strict
ExpiredAtTtl(request_age, ttl) == request_age >= ttl

\* request_age > settings.REQUEST_TTL_SECONDS
Expired(request_age, ttl) == request_age > ttl

\* request_age < -30
FromFuture(request_age) == request_age < -CLOCK_SKEW_SECONDS

\* a bug: the ledger is never consulted
SeenBeforeIgnored(request_id, seen) == FALSE

\* request.request_id in self.seen_request_ids
SeenBefore(request_id, seen) == request_id \in DOMAIN seen

\* a bug: entries are evicted one second before they are an hour old
CleanOldEarly(seen, t) ==
    LET cutoff == t - RETENTION_SECONDS + 1
        kept == {rid \in DOMAIN seen : seen[rid] > cutoff}
    IN  [rid \in kept |-> seen[rid]]

\* the dict comprehension that keeps the entries younger than one hour
CleanOld(seen, t) ==
    LET cutoff == t - RETENTION_SECONDS
        kept == {rid \in DOMAIN seen : seen[rid] > cutoff}
    IN  [rid \in kept |-> seen[rid]]

\* self.seen_request_ids[request.request_id] = now
StoreId(seen, request_id, t) ==
    [rid \in (DOMAIN seen) \cup {request_id} |->
        IF rid = request_id THEN t ELSE seen[rid]]

\* returns the verdict and the ledger the call leaves behind
CheckReplayProtection(request, seen, t, ttl) ==
    LET request_age == t - request.timestamp
    IN  IF Expired(request_age, ttl) THEN [ok |-> FALSE, seen |-> seen]
        ELSE IF FromFuture(request_age) THEN [ok |-> FALSE, seen |-> seen]
        ELSE IF SeenBefore(request.request_id, seen) THEN [ok |-> FALSE, seen |-> seen]
        ELSE [ok |-> TRUE, seen |-> CleanOld(StoreId(seen, request.request_id, t), t)]

\* ------------------------------------------------------------------------
\* HPKEService.decrypt_request
\* ------------------------------------------------------------------------
\* base64-decode the ciphertext, json.loads it, build DecryptedChatPayload
Decodes(payload) == payload # "garbage"

\* a bug: the id of a request that fails to decode is taken back
DecryptRequestForgetting(request, seen, t, ttl) ==
    LET chk == CheckReplayProtection(request, seen, t, ttl)
    IN  IF ~chk.ok THEN [outcome |-> REPLAY_ERROR, seen |-> chk.seen]
        ELSE IF ~Decodes(request.payload) THEN [outcome |-> DECRYPT_ERROR, seen |-> seen]
        ELSE [outcome |-> ACCEPTED, seen |-> chk.seen]

DecryptRequest(request, seen, t, ttl) ==
    LET chk == CheckReplayProtection(request, seen, t, ttl)
    IN  IF ~chk.ok THEN [outcome |-> REPLAY_ERROR, seen |-> chk.seen]
        ELSE IF ~Decodes(request.payload) THEN [outcome |-> DECRYPT_ERROR, seen |-> chk.seen]
        ELSE [outcome |-> ACCEPTED, seen |-> chk.seen]

NoCall == [request_id |-> "none", timestamp |-> 0, payload |-> "ok",
           outcome |-> "none", at |-> 0]

\* ------------------------------------------------------------------------
\* CircuitBreaker
\* ------------------------------------------------------------------------
CLOSED == "closed"
OPEN == "open"
HALF_OPEN == "half_open"

\* Optional[float]: None is <<>>, an instant t is <<t>>
None == <<>>
Some(t) == <<t>>

\* CircuitBreaker.__init__
NewCircuitBreaker ==
    [enabled |-> TRUE, state |-> CLOSED, failure_count |-> 0,
     last_failure_time |-> None, success_count |-> 0,
     total_requests |-> 0, total_failures |-> 0, state_transitions |-> 0]

TransitionToOpen(b) ==
    IF b.state # OPEN
    THEN [b EXCEPT !.state = OPEN, !.state_transitions = @ + 1]
    ELSE b

\* a bug: successes counted in an earlier Half-Open period are kept
TransitionToHalfOpenKeepsCount(b) ==
    IF b.state # HALF_OPEN
    THEN [b EXCEPT !.state = HALF_OPEN, !.state_transitions = @ + 1]
    ELSE b

TransitionToHalfOpen(b) ==
    IF b.state # HALF_OPEN
    THEN [b EXCEPT !.state = HALF_OPEN, !.success_count = 0,
                   !.state_transitions = @ + 1]
    ELSE b

\* a bug: the failures that opened the breaker are still counted when it
\* closes again
TransitionToClosedKeepsCount(b) ==
    IF b.state # CLOSED
    THEN [b EXCEPT !.state = CLOSED, !.success_count = 0,
                   !.state_transitions = @ + 1]
    ELSE b

TransitionToClosed(b) ==
    IF b.state # CLOSED
    THEN [b EXCEPT !.state = CLOSED, !.failure_count = 0, !.success_count = 0,
                   !.state_transitions = @ + 1]
    ELSE b

\* a bug: the reset interval must be exceeded, not just reached
ResetElapsedStrict(last_failure_time, current_time) ==
    /\ last_failure_time # None
    /\ last_failure_time[1] # 0
    /\ current_time - last_failure_time[1] > CIRCUIT_RESET_SECONDS

\* `self.last_failure_time and current_time - self.last_failure_time >= reset`:
\* None and 0.0 are both falsy
ResetElapsed(last_failure_time, current_time) ==
    /\ last_failure_time # None
    /\ last_failure_time[1] # 0
    /\ current_time - last_failure_time[1] >= CIRCUIT_RESET_SECONDS

\* can_make_request: the verdict and the breaker the call leaves behind
CanMakeRequest(b, current_time) ==
    IF ~b.enabled THEN [ret |-> TRUE, b |-> b]
    ELSE LET b1 == [b EXCEPT !.total_requests = @ + 1]
         IN  IF b1.state = CLOSED THEN [ret |-> TRUE, b |-> b1]
             ELSE IF b1.state = OPEN
             THEN IF ResetElapsed(b1.last_failure_time, current_time)
                  THEN [ret |-> TRUE, b |-> TransitionToHalfOpen(b1)]
                  ELSE [ret |-> FALSE, b |-> b1]
             ELSE [ret |-> TRUE, b |-> b1]

\* a bug: a success while Closed leaves the failure count alone
RecordSuccessNoReset(b) ==
    IF ~b.enabled THEN b
    ELSE IF b.state = HALF_OPEN
    THEN LET b1 == [b EXCEPT !.success_count = @ + 1]
         IN  IF b1.success_count >= HALF_OPEN_SUCCESSES THEN TransitionToClosed(b1) ELSE b1
    ELSE b

RecordSuccess(b) ==
    IF ~b.enabled THEN b
    ELSE IF b.state = HALF_OPEN
    THEN LET b1 == [b EXCEPT !.success_count = @ + 1]
         IN  IF b1.success_count >= HALF_OPEN_SUCCESSES THEN TransitionToClosed(b1) ELSE b1
    ELSE IF b.state = CLOSED THEN [b EXCEPT !.failure_count = 0]
    ELSE b

\* a bug: the breaker opens only when the threshold is exceeded
RecordFailureOpensLate(b, current_time, threshold) ==
    IF ~b.enabled THEN b
    ELSE LET b1 == [b EXCEPT !.total_failures = @ + 1, !.failure_count = @ + 1,
                             !.last_failure_time = Some(current_time)]
         IN  IF b1.state = CLOSED
             THEN IF b1.failure_count > threshold THEN TransitionToOpen(b1) ELSE b1
             ELSE IF b1.state = HALF_OPEN THEN TransitionToOpen(b1)
             ELSE b1

\* a bug: a failure while Open leaves the instant of the last failure alone
RecordFailureOpenIgnored(b, current_time, threshold) ==
    IF ~b.enabled THEN b
    ELSE IF b.state = OPEN
    THEN [b EXCEPT !.total_failures = @ + 1, !.failure_count = @ + 1]
    ELSE LET b1 == [b EXCEPT !.total_failures = @ + 1, !.failure_count = @ + 1,
                             !.last_failure_time = Some(current_time)]
         IN  IF b1.state = CLOSED
             THEN IF b1.failure_count >= threshold THEN TransitionToOpen(b1) ELSE b1
             ELSE TransitionToOpen(b1)

\* a bug: the failure is not recorded
RecordFailureForgotten(b, current_time, threshold) == b

RecordFailure(b, current_time, threshold) ==
    IF ~b.enabled THEN b
    ELSE LET b1 == [b EXCEPT !.total_failures = @ + 1, !.failure_count = @ + 1,
                             !.last_failure_time = Some(current_time)]
         IN  IF b1.state = CLOSED
             THEN IF b1.failure_count >= threshold THEN TransitionToOpen(b1) ELSE b1
             ELSE IF b1.state = HALF_OPEN THEN TransitionToOpen(b1)
             ELSE b1

\* history kept beside the breaker: the last call made on it and its verdict,
\* the number of calls, the number of record_failure calls since the last
\* record_success or since the breaker entered Closed (run), and the value
\* run had when the last record_success arrived in Closed (prevRun), and the
\* number of record_success calls since the breaker entered Half-Open
\* (trial), and the instant at which the breaker, if Open, opened (opened_at)
NoBreakerCall ==
    [op |-> "none", ret |-> TRUE, calls |-> 0, run |-> 0, prevRun |-> 0,
     trial |-> 0, opened_at |-> 0]

HistAfter(h, op, ret, before, after) ==
    [op |-> op, ret |-> ret, calls |-> h.calls + 1,
     run |-> IF after.state # CLOSED THEN 0
             ELSE IF before.state # CLOSED THEN 0
             ELSE IF op = "record_success" THEN 0
             ELSE IF op = "record_failure" THEN h.run + 1
             ELSE h.run,
     prevRun |-> IF after.state # CLOSED \/ before.state # CLOSED THEN 0
                 ELSE IF op = "record_success" THEN h.run
                 ELSE h.prevRun,
     trial |-> IF after.state # HALF_OPEN \/ before.state # HALF_OPEN THEN 0
               ELSE IF op = "record_success" THEN h.trial + 1
               ELSE h.trial,
     opened_at |-> IF after.state # OPEN THEN 0
                   ELSE IF before.state # OPEN THEN after.last_failure_time[1]
                   ELSE h.opened_at]

\* the three calls, as steps on the shared breaker
DoCanMakeRequest ==
    LET r == CanMakeRequest(circuit_breaker, now)
    IN  /\ circuit_breaker' = r.b
        /\ cbHist' = HistAfter(cbHist, "can_make_request", r.ret, circuit_breaker, r.b)

DoRecordSuccess ==
    LET b == RecordSuccess(circuit_breaker)
    IN  /\ circuit_breaker' = b
        /\ cbHist' = HistAfter(cbHist, "record_success", TRUE, circuit_breaker, b)

DoRecordFailure ==
    LET b == RecordFailure(circuit_breaker, now, CIRCUIT_BREAKER_THRESHOLD)
    IN  /\ circuit_breaker' = b
        /\ cbHist' = HistAfter(cbHist, "record_failure", TRUE, circuit_breaker, b)

\* ------------------------------------------------------------------------
\* RateLimiter
\* ------------------------------------------------------------------------
\* RateLimiter.__init__ (the windows are defaultdicts of deques)
NewRateLimiter ==
    [enabled |-> TRUE, ip_windows |-> <<>>, device_windows |-> <<>>,
     total_requests |-> 0, blocked_requests |-> 0]

\* windows[key] of a defaultdict(deque): a missing key reads as an empty deque
Window(windows, key) == IF key \in DOMAIN windows THEN windows[key] ELSE <<>>

\* ... and the read leaves the key in the dict
SetWindow(windows, key, w) ==
    [k \in (DOMAIN windows) \cup {key} |-> IF k = key THEN w ELSE windows[k]]

\* a bug: an entry exactly window_seconds old is dropped as well
RECURSIVE PopExpiredInclusive(_, _)
PopExpiredInclusive(window, start) ==
    IF window # <<>> /\ Head(window) <= start
    THEN PopExpiredInclusive(Tail(window), start)
    ELSE window

\* while window and window[0] < start: window.popleft()
RECURSIVE PopExpired(_, _)
PopExpired(window, start) ==
    IF window # <<>> /\ Head(window) < start
    THEN PopExpired(Tail(window), start)
    ELSE window

\* a bug: a request exactly ten seconds old no longer counts as recent
CheckWindowBurstOpen(window, current_time, perMinute, burst) ==
    LET w == PopExpired(window, current_time - WINDOW_SECONDS)
        burst_start == current_time - BURST_WINDOW_SECONDS
        recent_requests == Cardinality({i \in DOMAIN w : w[i] > burst_start})
    IN  IF Len(w) >= perMinute THEN [ok |-> FALSE, w |-> w]
        ELSE IF recent_requests >= burst THEN [ok |-> FALSE, w |-> w]
        ELSE [ok |-> TRUE, w |-> w]

\* _check_window: the verdict and the deque as the call leaves it
CheckWindow(window, current_time, perMinute, burst) ==
    LET w == PopExpired(window, current_time - WINDOW_SECONDS)
        burst_start == current_time - BURST_WINDOW_SECONDS
        recent_requests == Cardinality({i \in DOMAIN w : w[i] >= burst_start})
    IN  IF Len(w) >= perMinute THEN [ok |-> FALSE, w |-> w]
        ELSE IF recent_requests >= burst THEN [ok |-> FALSE, w |-> w]
        ELSE [ok |-> TRUE, w |-> w]

\* one dict of windows after _cleanup_old_entries' loop over it
CleanWindows(windows, cutoff_time) ==
    LET pruned == [k \in DOMAIN windows |-> PopExpired(windows[k], cutoff_time)]
        kept == {k \in DOMAIN windows : pruned[k] # <<>>}
    IN  [k \in kept |-> pruned[k]]

\* _cleanup_old_entries
CleanupOldEntries(rl, current_time) ==
    IF rl.total_requests % CLEANUP_EVERY # 0 THEN rl
    ELSE LET cutoff_time == current_time - (WINDOW_SECONDS * 2)
         IN  [rl EXCEPT !.ip_windows = CleanWindows(@, cutoff_time),
                        !.device_windows = CleanWindows(@, cutoff_time)]

\* a bug: the address window takes the timestamp as soon as the address
\* check has passed, before the device check
AllowRequestEager(rl, client_ip, device_pubkey, current_time, perMinute, burst) ==
    IF ~rl.enabled THEN [ret |-> TRUE, rl |-> rl]
    ELSE
      LET rl1 == [rl EXCEPT !.total_requests = @ + 1]
          ipchk == CheckWindow(Window(rl1.ip_windows, client_ip), current_time,
                               perMinute, burst)
          rl2 == [rl1 EXCEPT !.ip_windows = SetWindow(@, client_ip, ipchk.w)]
          devchk == CheckWindow(Window(rl2.device_windows, device_pubkey),
                                current_time, perMinute, burst)
          rl3 == [rl2 EXCEPT
                    !.ip_windows = SetWindow(@, client_ip,
                                             Append(ipchk.w, current_time)),
                    !.device_windows = SetWindow(@, device_pubkey, devchk.w)]
          rl4 == [rl3 EXCEPT
                    !.device_windows = SetWindow(@, device_pubkey,
                                                 Append(devchk.w, current_time))]
      IN  IF ~ipchk.ok
          THEN [ret |-> FALSE, rl |-> [rl2 EXCEPT !.blocked_requests = @ + 1]]
          ELSE IF ~devchk.ok
          THEN [ret |-> FALSE, rl |-> [rl3 EXCEPT !.blocked_requests = @ + 1]]
          ELSE [ret |-> TRUE, rl |-> CleanupOldEntries(rl4, current_time)]

\* allow_request: the verdict and the limiter the call leaves behind
AllowRequest(rl, client_ip, device_pubkey, current_time, perMinute, burst) ==
    IF ~rl.enabled THEN [ret |-> TRUE, rl |-> rl]
    ELSE
      LET rl1 == [rl EXCEPT !.total_requests = @ + 1]
          ipchk == CheckWindow(Window(rl1.ip_windows, client_ip), current_time,
                               perMinute, burst)
          rl2 == [rl1 EXCEPT !.ip_windows = SetWindow(@, client_ip, ipchk.w)]
          devchk == CheckWindow(Window(rl2.device_windows, device_pubkey),
                                current_time, perMinute, burst)
          rl3 == [rl2 EXCEPT !.device_windows = SetWindow(@, device_pubkey, devchk.w)]
          rl4 == [rl3 EXCEPT
                    !.ip_windows = SetWindow(@, client_ip,
                                             Append(ipchk.w, current_time)),
                    !.device_windows = SetWindow(@, device_pubkey,
                                                 Append(devchk.w, current_time))]
      IN  IF ~ipchk.ok
          THEN [ret |-> FALSE, rl |-> [rl2 EXCEPT !.blocked_requests = @ + 1]]
          ELSE IF ~devchk.ok
          THEN [ret |-> FALSE, rl |-> [rl3 EXCEPT !.blocked_requests = @ + 1]]
          ELSE [ret |-> TRUE, rl |-> CleanupOldEntries(rl4, current_time)]

\* history of allow_request: the number of calls, the latest call and its
\* verdict, the requests it let pass, in order, and their number since the
\* service started (admits)
NoAllowCall ==
    [calls |-> 0, client_ip |-> "none", device_pubkey |-> "none", at |-> 0,
     ret |-> TRUE, admitted |-> <<>>, admits |-> 0]

AllowHistAfter(h, client_ip, device_pubkey, current_time, ret) ==
    [calls |-> h.calls + 1, client_ip |-> client_ip,
     device_pubkey |-> device_pubkey, at |-> current_time, ret |-> ret,
     admitted |-> IF ret
                  THEN Append(h.admitted, [client_ip |-> client_ip,
                                           device_pubkey |-> device_pubkey,
                                           at |-> current_time])
                  ELSE h.admitted,
     admits |-> IF ret THEN h.admits + 1 ELSE h.admits]

\* one call of rate_limiter.allow_request on a limiter and its history
AllowCall(lim, client_ip, device_pubkey, current_time, perMinute, burst) ==
    LET res == AllowRequest(lim.rl, client_ip, device_pubkey, current_time,
                            perMinute, burst)
    IN  [rl |-> res.rl,
         hist |-> AllowHistAfter(lim.hist, client_ip, device_pubkey,
                                 current_time, res.ret)]

\* n such calls in a row, all at the same instant
RECURSIVE Repeated(_, _, _, _, _, _, _)
Repeated(lim, n, client_ip, device_pubkey, current_time, perMinute, burst) ==
    IF n = 0 THEN lim
    ELSE Repeated(AllowCall(lim, client_ip, device_pubkey, current_time,
                            perMinute, burst),
                  n - 1, client_ip, device_pubkey, current_time, perMinute, burst)

\* ------------------------------------------------------------------------
\* HPKEService.encrypt_chunk
\* ------------------------------------------------------------------------
\* base64.b64encode / b64decode and json.dumps / loads, as tagged values
B64Encode(bytes) == <<"b64", bytes>>
B64Decode(text) == text[2]
JsonDumps(obj) == <<"json", obj>>
JsonLoads(text) == text[2]

\* the empty string; a token is a non-empty string, here the pair
\* <<serial of the request, position in that request's upstream stream>>
EmptyString == <<>>

\* a bug: the chunk is numbered from one
EncryptChunkOffByOne(chunk_data, recipient_public_key, sequence) ==
    JsonDumps([encapsulated_key |-> B64Encode("mock_enckey_for_chunk"),
               ciphertext |-> B64Encode(chunk_data),
               aad |-> B64Encode(<<"chunk-", sequence + 1>>),
               sequence |-> sequence + 1])

\* a string that str.encode('utf-8') rejects (it holds a lone surrogate);
\* it is no token of the model's streams
UNENCODABLE == <<0, 0>>

Encodable(chunk_data) == chunk_data # UNENCODABLE

CHUNK_ENCRYPTION_FAILED ==
    <<"ValueError", [message |-> "Chunk encryption failed"]>>

\* a bug: every chunk carries the first chunk's AAD
EncryptChunkFixedAad(chunk_data, recipient_public_key, sequence) ==
    IF ~Encodable(chunk_data) THEN CHUNK_ENCRYPTION_FAILED
    ELSE JsonDumps([encapsulated_key |-> B64Encode("mock_enckey_for_chunk"),
                    ciphertext |-> B64Encode(chunk_data),
                    aad |-> B64Encode(<<"chunk-", 0>>),
                    sequence |-> sequence])

EncryptChunk(chunk_data, recipient_public_key, sequence) ==
    IF ~Encodable(chunk_data) THEN CHUNK_ENCRYPTION_FAILED
    ELSE JsonDumps([encapsulated_key |-> B64Encode("mock_enckey_for_chunk"),
                    ciphertext |-> B64Encode(chunk_data),
                    aad |-> B64Encode(<<"chunk-", sequence>>),
                    sequence |-> sequence])

\* a call of encrypt_chunk that has not returned
NoChunkCall ==
    [chunk_data |-> EmptyString, recipient_public_key |-> "dev-A",
     sequence |-> 0, ret |-> None]

\* what the client reads back from a serialized chunk
ChunkSequence(data) == JsonLoads(data).sequence
ChunkPlaintext(data) == B64Decode(JsonLoads(data).ciphertext)

\* ------------------------------------------------------------------------
\* HPKEService: the router's key pairs and their rotation
\* ------------------------------------------------------------------------
HPKE_KEY_ROTATION_HOURS == 24
KEY_ROTATION_SECONDS == HPKE_KEY_ROTATION_HOURS * 3600
\* a key id is "key-" and digits: the initial "001", later the hour of the
\* rotation as YYYYMMDDHH, here the number of the hour since the epoch
INITIAL_KEY_ID == <<"key-", 1>>

\* ec.generate_private_key draws a key no earlier call has drawn: the n-th
\* key of the run
GeneratePrivateKey(n) == <<"private", n>>
\* private_key.public_key()
PublicKey(private_key) == <<"public", private_key[2]>>
\* _public_key_to_bytes: the PEM encoding
PublicKeyToBytes(public_key) == <<"pem", public_key>>
\* strftime('%Y%m%d%H'): the hour of the instant
KeyIdAt(t) == <<"key-", t \div 3600>>

\* _generate_new_key_pair, with the n-th key
GenerateNewKeyPair(h, n) ==
    [h EXCEPT !.current_private_key = GeneratePrivateKey(n),
              !.current_public_key = PublicKeyToBytes(PublicKey(GeneratePrivateKey(n)))]

\* a bug: no new pair is drawn, the pair just promoted stays next as well
GenerateNextKeysStale(h, n) ==
    [h EXCEPT !.next_private_key = h.current_private_key,
              !.next_public_key = h.current_public_key]

\* _generate_next_keys, with the n-th key
GenerateNextKeys(h, n) ==
    [h EXCEPT !.next_private_key = GeneratePrivateKey(n),
              !.next_public_key = PublicKeyToBytes(PublicKey(GeneratePrivateKey(n)))]

\* __init__ and _initialize_keys at instant t, with no key files yet (or
\* with the files a completed _save_keys_to_file left)
NewHPKEService(t) ==
    GenerateNextKeys(
        GenerateNewKeyPair(
            [current_private_key |-> None, current_public_key |-> None,
             next_private_key |-> None, next_public_key |-> None,
             key_id |-> INITIAL_KEY_ID,
             key_expires_at |-> t + KEY_ROTATION_SECONDS], 1), 2)

\* should_rotate_keys
ShouldRotateKeys(h, t) == t >= h.key_expires_at

\* _private_key_to_bytes (PEM) and serialization.load_pem_private_key
PrivateKeyToBytes(private_key) == <<"pem", private_key>>
LoadPemPrivateKey(private_key_data) == private_key_data[2]

\* the key files before the first save
NoKeyFiles == [private |-> None, public |-> None]

\* how a _save_keys_to_file call ends: it returns, or it raises before
\* anything is written (makedirs, opening the private-key file), or it
\* raises with the private-key file written and the public-key file not
\* (chmod, opening the public-key file)
SAVED == "saved"
FAILED_BEFORE == "raised before the private-key file was written"
FAILED_BETWEEN == "raised before the public-key file was written"
SaveOutcomes == {SAVED, FAILED_BEFORE, FAILED_BETWEEN}

\* _save_keys_to_file: the files it leaves
SaveKeysToFile(h, files, save) ==
    IF save = FAILED_BEFORE THEN files
    ELSE IF save = FAILED_BETWEEN
    THEN [files EXCEPT !.private = PrivateKeyToBytes(h.current_private_key)]
    ELSE [private |-> PrivateKeyToBytes(h.current_private_key),
          public |-> h.current_public_key]

\* a bug: the call is left after its first assignment
RotateKeysTorn(h, t, n, save) ==
    [h EXCEPT !.current_private_key = h.next_private_key]

\* rotate_keys at instant t; n numbers the key it draws, and `save` tells
\* whether _save_keys_to_file returned or raised (the call then ends before
\* the key id is updated)
RotateKeys(h, t, n, save) ==
    IF h.next_private_key = None \/ h.next_public_key = None THEN h
    ELSE LET h1 == [h EXCEPT !.current_private_key = h.next_private_key,
                             !.current_public_key = h.next_public_key,
                             !.key_expires_at = t + KEY_ROTATION_SECONDS]
             h2 == GenerateNextKeys(h1, n)
         IN  IF save = SAVED THEN [h2 EXCEPT !.key_id = KeyIdAt(t)] ELSE h2

\* the files rotate_keys leaves: it saves after the keys are swapped
RotateKeysFiles(h, files, save) ==
    IF h.next_private_key = None \/ h.next_public_key = None THEN files
    ELSE SaveKeysToFile([h EXCEPT !.current_private_key = h.next_private_key,
                                  !.current_public_key = h.next_public_key],
                        files, save)

\* _load_keys_from_file
LoadKeysFromFile(h, files) ==
    [h EXCEPT !.current_private_key = LoadPemPrivateKey(files.private),
              !.current_public_key = files.public]

\* __init__ and _initialize_keys at instant t with both key files present;
\* n numbers the key drawn for the next pair
LoadedHPKEService(files, t, n) ==
    GenerateNextKeys(
        LoadKeysFromFile(
            [current_private_key |-> None, current_public_key |-> None,
             next_private_key |-> None, next_public_key |-> None,
             key_id |-> INITIAL_KEY_ID,
             key_expires_at |-> t + KEY_ROTATION_SECONDS], files), n)

\* get_public_keys
GetPublicKeys(h) ==
    [current_pubkey |-> IF h.current_public_key # None
                        THEN B64Encode(h.current_public_key) ELSE EmptyString,
     next_pubkey |-> IF h.next_public_key # None
                     THEN B64Encode(h.next_public_key) ELSE None,
     key_id |-> h.key_id,
     expires_at |-> h.key_expires_at]

\* history of the calls on the keys: how many, how many keys were drawn
\* and rotations made, the latest call, the current pair as that call found
\* it and as it left it, what it returned, and the request whose stream is
\* being followed (every chunk with the number of rotations made before it)
NoSession == [open |-> FALSE, chunk_sequence |-> 0, chunks |-> <<>>]

NoKeyCall ==
    [calls |-> 0, generated |-> 2, rotations |-> 0, restarts |-> 0,
     op |-> "none",
     found |-> <<None, None>>, left |-> <<None, None>>, ret |-> None,
     session |-> NoSession]

CurrentPair(h) == <<h.current_private_key, h.current_public_key>>

KeyHistAfter(kh, op, before, after, ret) ==
    [kh EXCEPT !.calls = @ + 1, !.op = op, !.found = CurrentPair(before),
               !.left = CurrentPair(after), !.ret = ret]

\* ------------------------------------------------------------------------
\* HealthMonitor (the inference endpoints, their probes, and the endpoint
\* handed to a stream; last_check and last_error are not modelled)
\* ------------------------------------------------------------------------
HEALTHY == "healthy"
UNHEALTHY == "unhealthy"
UNKNOWN == "unknown"

\* the endpoints of settings.get_inference_https_urls(), in configured order
Endpoints == <<"https://10.0.0.1", "https://10.0.0.2", "https://10.0.0.3">>

NewNodeHealth ==
    [status |-> UNKNOWN, consecutive_failures |-> 0,
     consecutive_successes |-> 0]

\* lock is the asyncio.Lock: 0 when free, otherwise 1 + the number of nodes
\* the running _check_all_nodes has probed
NewHealthMonitor ==
    [endpoints |-> <<>>, nodes |-> <<>>, healthy_nodes |-> {},
     healthy_list |-> <<>>, current_node_index |-> 0, lock |-> 0]

Range(s) == {s[i] : i \in 1..Len(s)}

\* startup: one NodeHealth per endpoint; endpoints is the key order of the
\* nodes dict
Startup(hm, endpoints) ==
    [hm EXCEPT !.endpoints = endpoints,
               !.nodes = [e \in Range(endpoints) |-> NewNodeHealth]]

\* healthy_list is the order in which list(self.healthy_nodes) gives the
\* set.  It stays as it is while the set is not modified; discard leaves the
\* others in their order, and add places the new one at a position that
\* depends on its hash
Without(list, endpoint) == SelectSeq(list, LAMBDA e : e # endpoint)

InsertedAt(list, endpoint, pos) ==
    SubSeq(list, 1, pos - 1) \o <<endpoint>> \o SubSeq(list, pos, Len(list))

\* _check_node_health, where the counters forget nothing of the other kind
CheckNodeHealthNoReset(hm, endpoint, is_healthy, pos) ==
    LET node == hm.nodes[endpoint]
        counted == IF is_healthy
                   THEN [node EXCEPT !.consecutive_successes = @ + 1]
                   ELSE [node EXCEPT !.consecutive_failures = @ + 1]
        up == /\ is_healthy
              /\ node.status # HEALTHY
              /\ counted.consecutive_successes >= HEALTHY_THRESHOLD
        down == /\ ~is_healthy
                /\ node.status # UNHEALTHY
                /\ counted.consecutive_failures >= UNHEALTHY_THRESHOLD
        after == IF up THEN [counted EXCEPT !.status = HEALTHY]
                 ELSE IF down THEN [counted EXCEPT !.status = UNHEALTHY]
                 ELSE counted
    IN  [hm EXCEPT
           !.nodes[endpoint] = after,
           !.healthy_nodes = IF up THEN @ \cup {endpoint}
                             ELSE IF down THEN @ \ {endpoint} ELSE @,
           !.healthy_list =
               IF up /\ endpoint \notin hm.healthy_nodes
               THEN InsertedAt(@, endpoint, pos)
               ELSE IF down THEN Without(@, endpoint) ELSE @]

\* _check_node_health, where a node that turns Unhealthy stays in the
\* healthy set
CheckNodeHealthKeepsListed(hm, endpoint, is_healthy, pos) ==
    LET node == hm.nodes[endpoint]
        counted == IF is_healthy
                   THEN [node EXCEPT !.consecutive_failures = 0,
                                     !.consecutive_successes = @ + 1]
                   ELSE [node EXCEPT !.consecutive_successes = 0,
                                     !.consecutive_failures = @ + 1]
        up == /\ is_healthy
              /\ node.status # HEALTHY
              /\ counted.consecutive_successes >= HEALTHY_THRESHOLD
        down == /\ ~is_healthy
                /\ node.status # UNHEALTHY
                /\ counted.consecutive_failures >= UNHEALTHY_THRESHOLD
        after == IF up THEN [counted EXCEPT !.status = HEALTHY]
                 ELSE IF down THEN [counted EXCEPT !.status = UNHEALTHY]
                 ELSE counted
    IN  [hm EXCEPT
           !.nodes[endpoint] = after,
           !.healthy_nodes = IF up THEN @ \cup {endpoint} ELSE @,
           !.healthy_list =
               IF up /\ endpoint \notin hm.healthy_nodes
               THEN InsertedAt(@, endpoint, pos)
               ELSE @]

\* _check_node_health with the answer of _perform_health_check, which
\* returns False for every failure and raises nothing
CheckNodeHealth(hm, endpoint, is_healthy, pos) ==
    LET node == hm.nodes[endpoint]
        counted == IF is_healthy
                   THEN [node EXCEPT !.consecutive_failures = 0,
                                     !.consecutive_successes = @ + 1]
                   ELSE [node EXCEPT !.consecutive_successes = 0,
                                     !.consecutive_failures = @ + 1]
        up == /\ is_healthy
              /\ node.status # HEALTHY
              /\ counted.consecutive_successes >= HEALTHY_THRESHOLD
        down == /\ ~is_healthy
                /\ node.status # UNHEALTHY
                /\ counted.consecutive_failures >= UNHEALTHY_THRESHOLD
        after == IF up THEN [counted EXCEPT !.status = HEALTHY]
                 ELSE IF down THEN [counted EXCEPT !.status = UNHEALTHY]
                 ELSE counted
    IN  [hm EXCEPT
           !.nodes[endpoint] = after,
           !.healthy_nodes = IF up THEN @ \cup {endpoint}
                             ELSE IF down THEN @ \ {endpoint} ELSE @,
           !.healthy_list =
               IF up /\ endpoint \notin hm.healthy_nodes
               THEN InsertedAt(@, endpoint, pos)
               ELSE IF down THEN Without(@, endpoint) ELSE @]

NO_ENDPOINTS == "RuntimeError: No inference endpoints available"

\* get_healthy_endpoint, where the round-robin runs over all the configured
\* endpoints
GetHealthyEndpointOfAll(hm) ==
    IF hm.healthy_nodes = {}
    THEN [hm |-> hm,
          ret |-> IF Len(hm.endpoints) > 0 THEN hm.endpoints[1]
                  ELSE NO_ENDPOINTS]
    ELSE [hm |-> [hm EXCEPT !.current_node_index = @ + 1],
          ret |-> hm.endpoints[(hm.current_node_index
                                  % Len(hm.endpoints)) + 1]]

\* get_healthy_endpoint, where the index stays where it is
GetHealthyEndpointSticky(hm) ==
    IF hm.healthy_nodes = {}
    THEN [hm |-> hm,
          ret |-> IF Len(hm.endpoints) > 0 THEN hm.endpoints[1]
                  ELSE NO_ENDPOINTS]
    ELSE [hm |-> hm,
          ret |-> hm.healthy_list[(hm.current_node_index
                                     % Len(hm.healthy_list)) + 1]]

\* get_healthy_endpoint, inside the lock: the monitor it leaves and what it
\* returns (or raises)
GetHealthyEndpoint(hm) ==
    IF hm.healthy_nodes = {}
    THEN [hm |-> hm,
          ret |-> IF Len(hm.endpoints) > 0 THEN hm.endpoints[1]
                  ELSE NO_ENDPOINTS]
    ELSE [hm |-> [hm EXCEPT !.current_node_index = @ + 1],
          ret |-> hm.healthy_list[(hm.current_node_index
                                     % Len(hm.healthy_list)) + 1]]

COMPLETIONS_PATH == "/v1/chat/completions"

\* stream_inference's url for an endpoint
UrlOf(endpoint) == <<endpoint, COMPLETIONS_PATH>>

\* history: the last operation, each endpoint's run of equal probe answers,
\* the number of times its status changed, and the endpoints handed out
\* since the healthy set was last modified
NoHealthCall ==
    [rounds |-> 0, calls |-> 0, op |-> "none", endpoint |-> "", url |-> None,
     is_healthy |-> FALSE,
     runs |-> [e \in Range(Endpoints) |-> [is_healthy |-> FALSE, n |-> 0]],
     changes |-> [e \in Range(Endpoints) |-> 0],
     returned |-> <<>>]

\* ------------------------------------------------------------------------
\* InferenceService (the client and the telemetry counters; the list of
\* latency samples is not modelled)
\* ------------------------------------------------------------------------
NewInferenceService(client) ==
    [client |-> client, active_streams |-> 0, total_requests |-> 0,
     error_count |-> 0]

\* the upstream's lines, by what the parser of stream_inference sees in them
LineKinds == {"blank", "bad_json", "empty_delta", "delta", "delta_finish",
              "finish", "done", "eof"}

\* the line carries a non-empty choices[0].delta.content
YieldsToken(kind) == kind \in {"delta", "delta_finish"}

\* the line ends the stream: `data: [DONE]`, a finish_reason, or end of body
EndsStream(kind) == kind \in {"done", "finish", "eof"}

\* the loop breaks once the generator is resumed after yielding the content
FinishesAfterToken(kind) == kind = "delta_finish"

\* ------------------------------------------------------------------------
\* One /api/chat request: chat_endpoint and its event_stream generator
\* ------------------------------------------------------------------------
TIMEOUT_BODY == "Request timeout"
ERROR_BODY == "Internal server error"

NewRequest ==
    [pc |-> "idle",            \* where the handler is
     status |-> 0,             \* HTTP status of the response
     detail |-> EmptyString,   \* `detail` of the HTTPException it raised
     raised |-> "none",        \* history: what the handler's try block raised
     serial |-> 0,             \* history: which request of the run this is
     request_id |-> "none",
     timestamp |-> 0,
     device_pubkey |-> "none",
     chunk_sequence |-> 0,     \* event_stream's local
     client_pubkey |-> None,   \* event_stream's local, unbound until assigned
     token |-> EmptyString,    \* the token the loop holds
     finish |-> FALSE,         \* the line that carried it had a finish_reason
     request_deadline |-> 0,   \* stream_inference's local
     yielded |-> <<>>,         \* history: tokens stream_inference yielded
     events |-> <<>>,          \* the SSE events emitted on the response
     abandoned |-> FALSE,      \* stream_inference left suspended by `break`
     successes |-> 0,          \* history: record_success calls of this request
     failures |-> 0,           \* history: record_failure calls of this request
     cause |-> "none",         \* history: what ended the upstream stream
     late |-> FALSE]           \* history: it ended after the request deadline

Event(type, data) == [event |-> type, data |-> data]

\* timestamps a client may put on an envelope sent at instant t: on and
\* just beyond both edges of the accepted window, and the present
FreshTimestamps(t, ttl) ==
    {t - (ttl + 1), t - ttl, t, t + CLOCK_SKEW_SECONDS, t + CLOCK_SKEW_SECONDS + 1}

\* ... or the timestamp of an envelope sent before (a replay of its bytes)
ReplayedTimestamps == {e.timestamp : e \in acceptLog}

\* the envelope (request id and timestamp) was accepted before
AcceptedBefore(request) ==
    \E e \in acceptLog : /\ e.request_id = request.request_id
                         /\ e.timestamp = request.timestamp

\* one call of hpke_service.decrypt_request
DecryptCall(request) ==
    LET res == DecryptRequest(request, seen_request_ids, now, REQUEST_TTL_SECONDS)
    IN  /\ seen_request_ids' = res.seen
        /\ lastCall' = [request_id |-> request.request_id,
                        timestamp |-> request.timestamp,
                        payload |-> request.payload,
                        outcome |-> res.outcome, at |-> now]
        /\ acceptLog' = IF res.outcome # ACCEPTED THEN acceptLog
                        ELSE acceptLog \cup
                                 {[request_id |-> request.request_id,
                                   timestamp |-> request.timestamp, at |-> now]}
        /\ dupAccept' = (dupAccept \/
                           (res.outcome = ACCEPTED /\ AcceptedBefore(request)))

Decrypt ==
    \E rid \in RequestIds, p \in LedgerPayloads,
       ts \in FreshTimestamps(now, REQUEST_TTL_SECONDS) \cup ReplayedTimestamps :
        /\ DecryptCall([request_id |-> rid, timestamp |-> ts, payload |-> p])
        /\ UNCHANGED <<clockVars, configVars, chunk_call, healthVars, keyVars, breakerVars, chatVars>>

\* ------------------------------------------------------------------------
\* The clock
\* ------------------------------------------------------------------------
\* jumps that land just before, on and after the end of the retention
LedgerJumps == {1, RETENTION_SECONDS - 1}

Advance(d, maxTicks) ==
    /\ ticks < maxTicks
    /\ now' = now + d
    /\ ticks' = ticks + 1

TickLedger ==
    /\ \E d \in LedgerJumps : Advance(d, MaxLedgerTicks)
    /\ UNCHANGED <<configVars, chunk_call, healthVars, keyVars, ledgerVars, breakerVars, chatVars>>

\* ------------------------------------------------------------------------
\* The envelope service on its own: decrypt_request calls and the clock
\* ------------------------------------------------------------------------
\* the state right after the services are constructed (main.py:24-31)
ConstructedServices ==
    /\ now = StartInstant
    /\ ticks = 0
    /\ health_monitor = Startup(NewHealthMonitor, Endpoints)
    /\ hmHist = NoHealthCall
    /\ hpke_service = NewHPKEService(StartInstant)
    /\ key_files = SaveKeysToFile(hpke_service, NoKeyFiles, SAVED)
    /\ keyHist = NoKeyCall
    /\ seen_request_ids = <<>>
    /\ lastCall = NoCall
    /\ acceptLog = {}
    /\ dupAccept = FALSE
    /\ circuit_breaker = NewCircuitBreaker
    /\ cbHist = NoBreakerCall
    /\ requests = [r \in Slots |-> NewRequest]

Constructed ==
    /\ ConstructedServices
    /\ rate_limiter = NewRateLimiter
    /\ rlHist = NoAllowCall

InitLedger ==
    /\ Constructed
    /\ chunk_call = NoChunkCall
    /\ workload = OneAtATime
    /\ inference_service = NewInferenceService(TRUE)
    /\ \E ttl \in TtlChoices :
          settings = SettingsWith(ttl, DEFAULT_CIRCUIT_BREAKER_THRESHOLD, TRUE)

NextLedger == Decrypt \/ TickLedger

SpecLedger == InitLedger /\ [][NextLedger]_vars

\* ------------------------------------------------------------------------
\* The circuit breaker on its own: its three methods and the clock
\* ------------------------------------------------------------------------
BreakerJumps == {1, CIRCUIT_RESET_SECONDS - 1, CIRCUIT_RESET_SECONDS}

CallCanMakeRequest ==
    /\ cbHist.calls < MaxBreakerCalls
    /\ DoCanMakeRequest
    /\ UNCHANGED <<clockVars, configVars, chunk_call, healthVars, keyVars, ledgerVars, chatVars>>

CallRecordSuccess ==
    /\ cbHist.calls < MaxBreakerCalls
    /\ DoRecordSuccess
    /\ UNCHANGED <<clockVars, configVars, chunk_call, healthVars, keyVars, ledgerVars, chatVars>>

CallRecordFailure ==
    /\ cbHist.calls < MaxBreakerCalls
    /\ DoRecordFailure
    /\ UNCHANGED <<clockVars, configVars, chunk_call, healthVars, keyVars, ledgerVars, chatVars>>

TickBreaker ==
    /\ \E d \in BreakerJumps : Advance(d, MaxBreakerTicks)
    /\ UNCHANGED <<configVars, chunk_call, healthVars, keyVars, ledgerVars, breakerVars, chatVars>>

InitBreaker ==
    /\ Constructed
    /\ chunk_call = NoChunkCall
    /\ workload = OneAtATime
    /\ inference_service = NewInferenceService(TRUE)
    /\ \E th \in {SmallThreshold, DEFAULT_CIRCUIT_BREAKER_THRESHOLD} :
          settings = SettingsWith(DEFAULT_REQUEST_TTL_SECONDS, th, TRUE)

NextBreaker ==
    CallCanMakeRequest \/ CallRecordSuccess \/ CallRecordFailure \/ TickBreaker

SpecBreaker == InitBreaker /\ [][NextBreaker]_vars

\* ------------------------------------------------------------------------
\* The rate limiter on its own: allow_request and the clock
\* ------------------------------------------------------------------------
\* who calls: a client, a second device behind the same address, and a
\* second address presenting the first device's key
LimiterClients ==
    {[client_ip |-> "10.0.0.7", device_pubkey |-> "dev-A"],
     [client_ip |-> "10.0.0.7", device_pubkey |-> "dev-B"],
     [client_ip |-> "10.0.0.8", device_pubkey |-> "dev-A"]}
LimiterAddresses == {c.client_ip : c \in LimiterClients}
LimiterDevices == {c.device_pubkey : c \in LimiterClients}

\* jumps that land on and just beyond the edges of the burst window and of
\* the one-minute window
LimiterJumps ==
    {1, BURST_WINDOW_SECONDS, WINDOW_SECONDS - BURST_WINDOW_SECONDS}

\* the service may have been up for a while: no request so far, or
\* CLEANUP_EVERY - 2 of them from one client, the last (or all of them, in
\* one burst) a good two minutes ago
PriorRequests == {0, CLEANUP_EVERY - 2}
PriorInstant == StartInstant - (2 * WINDOW_SECONDS + 1)

\* the limiter after n requests of one client at one instant: the first
\* RATE_LIMIT_BURST are let pass, and every one after them finds the same
\* full window, is refused, and is counted
AfterBurstOf(lim, n, client_ip, device_pubkey, current_time, perMinute, burst) ==
    LET k == IF n <= burst THEN n ELSE burst + 1
        first == Repeated(lim, k, client_ip, device_pubkey, current_time,
                          perMinute, burst)
    IN  [rl |-> [first.rl EXCEPT !.total_requests = @ + (n - k),
                                 !.blocked_requests = @ + (n - k)],
         hist |-> [first.hist EXCEPT !.calls = @ + (n - k)]]

\* the limiter after n requests of one client, each more than a minute after
\* the one before and the last at current_time: all were let pass, every
\* one found the window emptied of the one before, and none was the
\* hundredth
AfterSpacedOf(lim, n, client_ip, device_pubkey, current_time, perMinute, burst) ==
    IF n = 0 THEN lim
    ELSE AllowCall([rl |-> [lim.rl EXCEPT !.total_requests = @ + (n - 1)],
                    hist |-> [lim.hist EXCEPT !.calls = @ + (n - 1),
                                              !.admits = @ + (n - 1)]],
                   client_ip, device_pubkey, current_time, perMinute, burst)

CallAllowRequest ==
    /\ rlHist.calls < MaxLimiterCalls
    /\ \E c \in LimiterClients :
          LET lim == AllowCall([rl |-> rate_limiter, hist |-> rlHist],
                               c.client_ip, c.device_pubkey, now,
                               RATE_LIMIT_PER_MINUTE, RATE_LIMIT_BURST)
          IN  /\ rate_limiter' = lim.rl
              /\ rlHist' = lim.hist
    /\ UNCHANGED <<clockVars, configVars, chunk_call, healthVars, keyVars, ledgerVars, breakerVars,
                   inference_service, requests>>

TickLimiter ==
    /\ \E d \in LimiterJumps : Advance(d, MaxLimiterTicks)
    /\ UNCHANGED <<configVars, chunk_call, healthVars, keyVars, ledgerVars, breakerVars, chatVars>>

InitLimiter ==
    /\ ConstructedServices
    /\ chunk_call = NoChunkCall
    /\ workload = OneAtATime
    /\ inference_service = NewInferenceService(TRUE)
    /\ settings = [SettingsWith(DEFAULT_REQUEST_TTL_SECONDS, SmallThreshold, TRUE)
                      EXCEPT !.RATE_LIMIT_BURST = LimiterBurst]
    /\ \E enabled \in BOOLEAN :
        \E n \in (IF enabled THEN PriorRequests ELSE {0}) :
        \E spaced \in (IF n > 0 THEN BOOLEAN ELSE {FALSE}) :
          LET new == [rl |-> [NewRateLimiter EXCEPT !.enabled = enabled],
                      hist |-> NoAllowCall]
              lim == IF spaced
                     THEN AfterSpacedOf(new, n, "10.0.0.7", "dev-A", PriorInstant,
                                        RATE_LIMIT_PER_MINUTE, RATE_LIMIT_BURST)
                     ELSE AfterBurstOf(new, n, "10.0.0.7", "dev-A", PriorInstant,
                                       RATE_LIMIT_PER_MINUTE, RATE_LIMIT_BURST)
          IN  /\ rate_limiter = lim.rl
              /\ rlHist = [lim.hist EXCEPT !.calls = 0]

NextLimiter == CallAllowRequest \/ TickLimiter

SpecLimiter == InitLimiter /\ [][NextLimiter]_vars

\* ------------------------------------------------------------------------
\* The key pairs: key_rotation_task beside the calls of the handlers
\* ------------------------------------------------------------------------
\* key_rotation_task and the handlers are coroutines of one event loop, and
\* none of the HPKEService methods awaits: each call below runs from its
\* first statement to its return as one step.  A request is followed from
\* its decrypt_request through the encrypt_chunk calls of its stream, with
\* other calls and rotations in between.
KeyJumps == {1, KEY_ROTATION_SECONDS}

\* chat_endpoint: hpke_service.decrypt_request(chat_request)
KeysDecryptRequest ==
    /\ keyHist.calls < MaxKeyCalls
    /\ \E rid \in RequestIds, p \in LedgerPayloads :
          LET request == [request_id |-> rid, timestamp |-> now, payload |-> p]
              res == DecryptRequest(request, seen_request_ids, now,
                                    REQUEST_TTL_SECONDS)
              kh == KeyHistAfter(keyHist, "decrypt_request", hpke_service,
                                 hpke_service, Some(res.outcome))
          IN  /\ DecryptCall(request)
              /\ keyHist' = IF res.outcome = ACCEPTED /\ ~keyHist.session.open
                            THEN [kh EXCEPT !.session =
                                     [NoSession EXCEPT !.open = TRUE]]
                            ELSE kh
    /\ UNCHANGED <<clockVars, configVars, chunk_call, healthVars, hpke_service, key_files, breakerVars, chatVars>>

\* event_stream: hpke_service.encrypt_chunk for a token, or for the end
\* event after the last token
KeysEncryptChunk ==
    /\ keyHist.calls < MaxKeyCalls
    /\ keyHist.session.open
    /\ LET sequence == keyHist.session.chunk_sequence
           last == sequence = MaxTokens
           chunk_data == IF last THEN EmptyString ELSE <<1, sequence + 1>>
           data == EncryptChunk(chunk_data, "dev-A", sequence)
           kh == KeyHistAfter(keyHist, "encrypt_chunk", hpke_service,
                              hpke_service, Some(data))
       IN  keyHist' = [kh EXCEPT
                          !.session.open = ~last,
                          !.session.chunk_sequence = @ + 1,
                          !.session.chunks =
                              Append(@, [data |-> data,
                                         rotations |-> keyHist.rotations])]
    /\ UNCHANGED <<clockVars, configVars, chunk_call, healthVars, hpke_service, key_files, ledgerVars, breakerVars,
                   chatVars>>

\* the /api/pubkey handler: hpke_service.get_public_keys()
KeysGetPublicKeys ==
    /\ keyHist.calls < MaxKeyCalls
    /\ keyHist' = KeyHistAfter(keyHist, "get_public_keys", hpke_service,
                               hpke_service, Some(GetPublicKeys(hpke_service)))
    /\ UNCHANGED <<clockVars, configVars, chunk_call, healthVars, hpke_service, key_files, ledgerVars, breakerVars,
                   chatVars>>

\* key_rotation_task wakes and finds the keys due
KeyRotationTask ==
    /\ ShouldRotateKeys(hpke_service, now)
    /\ \E save \in SaveOutcomes :
          LET h == RotateKeys(hpke_service, now, keyHist.generated + 1, save)
          IN  /\ hpke_service' = h
              /\ key_files' = RotateKeysFiles(hpke_service, key_files, save)
              /\ keyHist' = [KeyHistAfter(keyHist, "rotate_keys", hpke_service,
                                          h, Some(save))
                                EXCEPT !.generated = @ + 1, !.rotations = @ + 1]
    /\ UNCHANGED <<clockVars, configVars, chunk_call, healthVars, ledgerVars, breakerVars, chatVars>>

TickKeys ==
    /\ \E d \in KeyJumps : Advance(d, MaxKeyTicks)
    /\ UNCHANGED <<configVars, chunk_call, healthVars, keyVars, ledgerVars, breakerVars, chatVars>>

InitKeys ==
    /\ Constructed
    /\ chunk_call = NoChunkCall
    /\ workload = OneAtATime
    /\ inference_service = NewInferenceService(TRUE)
    /\ settings = SettingsWith(DEFAULT_REQUEST_TTL_SECONDS, SmallThreshold, TRUE)

NextKeys ==
    \/ KeysDecryptRequest
    \/ KeysEncryptChunk
    \/ KeysGetPublicKeys
    \/ KeyRotationTask
    \/ TickKeys

SpecKeys == InitKeys /\ [][NextKeys]_vars

\* ... and the process may be stopped and started again: a new HPKEService
\* is made from the key files, with an empty ledger, and the stream that was
\* being followed is gone
RestartService ==
    /\ keyHist.restarts < MaxRestarts
    /\ hpke_service' = LoadedHPKEService(key_files, now, keyHist.generated + 1)
    /\ keyHist' = [keyHist EXCEPT !.restarts = @ + 1, !.generated = @ + 1,
                                  !.op = "restart",
                                  !.found = CurrentPair(hpke_service),
                                  !.left = CurrentPair(hpke_service'),
                                  !.ret = Some(GetPublicKeys(hpke_service)),
                                  !.session = NoSession]
    /\ seen_request_ids' = <<>>
    /\ UNCHANGED <<clockVars, configVars, chunk_call, healthVars, key_files, lastCall, acceptLog,
                   dupAccept, breakerVars, chatVars>>

NextKeyFiles == NextKeys \/ RestartService

SpecKeyFiles == InitKeys /\ [][NextKeyFiles]_vars

\* ------------------------------------------------------------------------
\* Specification of the health monitor beside the streams that ask it for
\* an endpoint (INFERENCE_TRANSPORT is http or https)
\* ------------------------------------------------------------------------
\* _periodic_health_check wakes and _check_all_nodes takes the lock
BeginCheckAllNodes ==
    /\ health_monitor.lock = 0
    /\ hmHist.rounds < MaxHealthRounds
    /\ health_monitor' = [health_monitor EXCEPT !.lock = 1]
    /\ hmHist' = [hmHist EXCEPT !.rounds = @ + 1, !.op = "check_all_nodes"]
    /\ UNCHANGED <<clockVars, configVars, chunk_call, keyVars, ledgerVars, breakerVars,
                   chatVars>>

\* the probe of the next node answers; after the last node the lock is
\* released
ProbeAnswers ==
    /\ health_monitor.lock > 0
    /\ LET endpoint == health_monitor.endpoints[health_monitor.lock]
           last == health_monitor.lock = Len(health_monitor.endpoints)
       IN  \E is_healthy \in BOOLEAN :
           \E pos \in 1..(Len(health_monitor.healthy_list) + 1) :
              LET hm == CheckNodeHealth(health_monitor, endpoint, is_healthy,
                                        pos)
                  run == hmHist.runs[endpoint]
              IN  /\ hm.healthy_nodes = health_monitor.healthy_nodes => pos = 1
                  /\ health_monitor' =
                         [hm EXCEPT !.lock = IF last THEN 0 ELSE @ + 1]
                  /\ hmHist' =
                       [hmHist EXCEPT
                          !.op = "check_node_health",
                          !.endpoint = endpoint,
                          !.is_healthy = is_healthy,
                          !.url = None,
                          !.runs[endpoint] =
                              [is_healthy |-> is_healthy,
                               n |-> IF run.is_healthy = is_healthy
                                     THEN run.n + 1 ELSE 1],
                          !.changes[endpoint] =
                              IF hm.nodes[endpoint].status
                                   # health_monitor.nodes[endpoint].status
                              THEN @ + 1 ELSE @,
                          !.returned =
                              IF hm.healthy_nodes = health_monitor.healthy_nodes
                              THEN @ ELSE <<>>]
    /\ UNCHANGED <<clockVars, configVars, chunk_call, keyVars, ledgerVars, breakerVars,
                   chatVars>>

\* stream_inference asks for an endpoint and builds its url
StreamChoosesEndpoint ==
    /\ health_monitor.lock = 0
    /\ hmHist.calls < MaxEndpointCalls
    /\ LET got == GetHealthyEndpoint(health_monitor)
       IN  /\ health_monitor' = got.hm
           /\ hmHist' = [hmHist EXCEPT !.calls = @ + 1,
                                       !.op = "get_healthy_endpoint",
                                       !.endpoint = got.ret,
                                       !.url = Some(UrlOf(got.ret)),
                                       !.returned = Append(@, got.ret)]
    /\ UNCHANGED <<clockVars, configVars, chunk_call, keyVars, ledgerVars, breakerVars,
                   chatVars>>

InitHealth ==
    /\ Constructed
    /\ chunk_call = NoChunkCall
    /\ workload = OneAtATime
    /\ inference_service = NewInferenceService(TRUE)
    /\ settings = SettingsWith(DEFAULT_REQUEST_TTL_SECONDS, SmallThreshold, TRUE)

NextHealth ==
    \/ BeginCheckAllNodes
    \/ ProbeAnswers
    \/ StreamChoosesEndpoint

SpecHealth == InitHealth /\ [][NextHealth]_vars

\* ------------------------------------------------------------------------
\* Specification of encrypt_chunk alone: one call, for every plaintext,
\* recipient key and sequence number of the bounded sets
\* ------------------------------------------------------------------------
ChunkPlaintexts == {EmptyString, <<1, 1>>, <<1, 2>>, <<2, 1>>, UNENCODABLE}
RecipientKeys == {"dev-A", "dev-B", "dev-C"}
ChunkSequences == 0..MaxSequence

CallEncryptChunk ==
    /\ chunk_call.ret = None
    /\ chunk_call' =
          [chunk_call EXCEPT !.ret =
              Some(EncryptChunk(chunk_call.chunk_data,
                                chunk_call.recipient_public_key,
                                chunk_call.sequence))]
    /\ UNCHANGED <<clockVars, configVars, healthVars, keyVars, ledgerVars,
                   breakerVars, chatVars>>

InitChunk ==
    /\ Constructed
    /\ workload = OneAtATime
    /\ inference_service = NewInferenceService(TRUE)
    /\ settings = SettingsWith(DEFAULT_REQUEST_TTL_SECONDS, SmallThreshold, TRUE)
    /\ \E p \in ChunkPlaintexts, r \in RecipientKeys, s \in ChunkSequences :
          chunk_call = [chunk_data |-> p, recipient_public_key |-> r,
                        sequence |-> s, ret |-> None]

NextChunk == CallEncryptChunk

SpecChunk == InitChunk /\ [][NextChunk]_vars

\* ------------------------------------------------------------------------
\* The request pipeline: chat_endpoint, event_stream, stream_inference
\* ------------------------------------------------------------------------
\* The service runs on one event loop: a handler or generator runs from one
\* await (or yield) to the next without interruption, so each action below
\* is one such stretch.  Taken as given: device_pubkey is valid base64, and
\* the server iterates event_stream to its end (it is not cancelled from
\* outside).  An idle upstream is cut by httpx's read timeout, whose instant
\* the model leaves open.
\* decrypted_payload.messages[0]['content'] (main.py:114)
HasMessages(payload) == payload # "no_messages"

\* the handler's frame for a request it has just received
Received(request, serial) ==
    [NewRequest EXCEPT !.serial = serial,
                       !.request_id = request.request_id,
                       !.timestamp = request.timestamp,
                       !.device_pubkey = request.device_pubkey]

\* the handler returns without a stream: it raises an HTTPException
RATE_LIMIT_BODY == "Rate limit exceeded"
UNAVAILABLE_BODY == "Service temporarily unavailable"
INDEX_ERROR == "IndexError"

Refused(req, status, detail) ==
    [req EXCEPT !.pc = "done", !.status = status, !.detail = detail]

\* what the body of the handler's `try` raises before the stream is made:
\* decrypt_request's ValueError, or messages[0] of an empty list
Raises(dec, payload) ==
    IF dec.outcome # ACCEPTED THEN dec.outcome
    ELSE IF ~HasMessages(payload) THEN INDEX_ERROR
    ELSE "none"

\* the `detail` the outer `except Exception as e` answers with
ErrorDetailOfException(e) == e

ErrorDetail(e) == ERROR_BODY

\* the two admission gates, in the order the handler applies them: the
\* status it refuses with, or 200 when both let the request pass
GateBreakerFirst(allowed, available) ==
    IF ~available THEN 503 ELSE IF ~allowed THEN 429 ELSE 200

Gate(allowed, available) ==
    IF ~allowed THEN 429 ELSE IF ~available THEN 503 ELSE 200

\* chat_endpoint up to `return EventSourceResponse(event_stream())`; nothing
\* in it awaits, so it runs as one step
ChatEndpoint(r, client_ip, request) ==
    /\ r <= workload.handlers
    /\ requests[r].pc \in {"idle", "done"}
    /\ ~requests[r].abandoned
    /\ \A q \in Slots : q < r => requests[q].pc \notin {"idle", "done"}
    /\ rate_limiter.total_requests < MaxRequests
    /\ LET rl == AllowRequest(rate_limiter, client_ip, request.device_pubkey, now,
                              RATE_LIMIT_PER_MINUTE, RATE_LIMIT_BURST)
           cb == CanMakeRequest(circuit_breaker, now)
           h1 == HistAfter(cbHist, "can_make_request", cb.ret, circuit_breaker, cb.b)
           dec == DecryptRequest(request, seen_request_ids, now, REQUEST_TTL_SECONDS)
           bf == RecordFailure(cb.b, now, CIRCUIT_BREAKER_THRESHOLD)
           h2 == HistAfter(h1, "record_failure", TRUE, cb.b, bf)
           req == Received(request, rl.rl.total_requests)
           e == Raises(dec, request.payload)
           gate == Gate(rl.ret, cb.ret)
       IN  /\ rate_limiter' = rl.rl
           /\ rlHist' = AllowHistAfter(rlHist, client_ip, request.device_pubkey,
                                       now, rl.ret)
           /\ IF gate = 429
              THEN /\ requests' = [requests EXCEPT ![r] = Refused(req, 429, RATE_LIMIT_BODY)]
                   /\ UNCHANGED <<ledgerVars, breakerVars>>
              ELSE IF gate = 503
              THEN /\ requests' = [requests EXCEPT ![r] = Refused(req, 503, UNAVAILABLE_BODY)]
                   /\ circuit_breaker' = cb.b
                   /\ cbHist' = h1
                   /\ UNCHANGED ledgerVars
              ELSE IF e # "none"
              THEN \* the outer `except Exception`
                   /\ DecryptCall(request)
                   /\ circuit_breaker' = bf
                   /\ cbHist' = h2
                   /\ requests' = [requests EXCEPT ![r] =
                                     [Refused(req, 500, ErrorDetail(e))
                                        EXCEPT !.failures = 1, !.raised = e]]
              ELSE /\ DecryptCall(request)
                   /\ circuit_breaker' = cb.b
                   /\ cbHist' = h1
                   /\ requests' = [requests EXCEPT ![r] =
                                     [req EXCEPT !.pc = "open", !.status = 200]]
    /\ UNCHANGED <<clockVars, configVars, chunk_call, healthVars, keyVars, inference_service>>

\* an envelope is stamped when it is made: now, or when the service started
\* (sent late, or sent again)
EnvelopeTimestamps == {StartInstant, now}

Chat ==
    \E r \in Slots, client_ip \in ClientAddresses, dev \in DeviceKeys,
       rid \in RequestIds, p \in Payloads, ts \in EnvelopeTimestamps :
        ChatEndpoint(r, client_ip,
                     [request_id |-> rid, timestamp |-> ts, payload |-> p,
                      device_pubkey |-> dev])

\* event_stream's `except` clauses: record_failure, then the error event
\* a bug: the error event is sent without the failure being recorded
RaisedInStreamUnrecorded(r, body, cause, late) ==
    /\ UNCHANGED breakerVars
    /\ requests' = [requests EXCEPT ![r] =
                      [@ EXCEPT !.pc = "done",
                                !.events = Append(@, Event("error", body)),
                                !.cause = cause,
                                !.late = late]]

RaisedInStream(r, body, cause, late) ==
    LET bf == RecordFailure(circuit_breaker, now, CIRCUIT_BREAKER_THRESHOLD)
    IN  /\ circuit_breaker' = bf
        /\ cbHist' = HistAfter(cbHist, "record_failure", TRUE, circuit_breaker, bf)
        /\ requests' = [requests EXCEPT ![r] =
                          [@ EXCEPT !.pc = "done",
                                    !.events = Append(@, Event("error", body)),
                                    !.failures = @ + 1,
                                    !.cause = cause,
                                    !.late = late]]

\* stream_inference's `except Exception` and `finally`
StreamFailed(svc) ==
    [svc EXCEPT !.error_count = @ + 1, !.active_streams = @ - 1]

\* stream_inference's normal exit through `finally`
StreamClosed(svc) == [svc EXCEPT !.active_streams = @ - 1]

\* event_stream starts and asks stream_inference for its first token: the
\* client check, the counters, the deadline, then self.client.stream(...)
\* and raise_for_status()
StartStream(r, outcome) ==
    /\ requests[r].pc = "open"
    /\ IF ~inference_service.client
       THEN /\ outcome = "ok"
            /\ RaisedInStream(r, ERROR_BODY, "not_initialized", FALSE)
            /\ UNCHANGED inference_service
       ELSE IF outcome = "ok"
       THEN /\ inference_service' =
                  [inference_service EXCEPT !.active_streams = @ + 1,
                                            !.total_requests = @ + 1]
            /\ requests' = [requests EXCEPT ![r] =
                  [@ EXCEPT !.pc = "reading",
                            !.request_deadline = now + REQUEST_BUDGET_SECONDS]]
            /\ UNCHANGED breakerVars
       ELSE /\ inference_service' =
                  [inference_service EXCEPT !.total_requests = @ + 1,
                                            !.error_count = @ + 1]
            /\ RaisedInStream(r, ERROR_BODY, outcome, FALSE)
    /\ UNCHANGED <<clockVars, configVars, chunk_call, healthVars, keyVars, ledgerVars, limiterVars>>

StartStreams ==
    \E r \in Slots, outcome \in {"ok", "connect_error", "http_status"} :
        StartStream(r, outcome)

\* the content of the next delta of a request's upstream stream: what the
\* model says for this request, in this position
UpstreamToken(req) == <<req.serial, Len(req.yielded) + 1>>

\* current_time > request_deadline
BudgetExceeded(current_time, request_deadline) == current_time > request_deadline

\* one line arrives from the upstream: one turn of `async for line`
ReadLine(r, kind) ==
    /\ requests[r].pc = "reading"
    /\ YieldsToken(kind) => Len(requests[r].yielded) < MaxTokens
    /\ IF BudgetExceeded(now, requests[r].request_deadline) /\ kind # "eof"
       THEN /\ inference_service' = StreamFailed(inference_service)
            /\ RaisedInStream(r, TIMEOUT_BODY, "timeout", TRUE)
       ELSE IF YieldsToken(kind)
       THEN /\ requests' = [requests EXCEPT ![r] =
                  [@ EXCEPT !.pc = "token",
                            !.token = UpstreamToken(requests[r]),
                            !.finish = FinishesAfterToken(kind),
                            !.yielded = Append(@, UpstreamToken(requests[r]))]]
            /\ UNCHANGED <<breakerVars, inference_service>>
       ELSE IF EndsStream(kind)
       THEN /\ inference_service' = StreamClosed(inference_service)
            /\ requests' = [requests EXCEPT ![r] =
                  [@ EXCEPT !.pc = "after_loop", !.cause = "completed",
                            !.late = (now > requests[r].request_deadline)]]
            /\ UNCHANGED breakerVars
       ELSE UNCHANGED <<requests, breakerVars, inference_service>>
    /\ UNCHANGED <<clockVars, configVars, chunk_call, healthVars, keyVars, ledgerVars, limiterVars>>

UpstreamLine == \E r \in Slots, kind \in LineKinds : ReadLine(r, kind)

\* the read from the upstream raises instead of delivering a line: the
\* connection breaks, or nothing arrives for INFERENCE_READ_TIMEOUT_SECONDS
\* (httpx.ReadTimeout, which is not an asyncio.TimeoutError)
ReadFails(r, cause) ==
    /\ requests[r].pc = "reading"
    /\ inference_service' = StreamFailed(inference_service)
    /\ RaisedInStream(r, ERROR_BODY, cause, now > requests[r].request_deadline)
    /\ UNCHANGED <<clockVars, configVars, chunk_call, healthVars, keyVars, ledgerVars, limiterVars>>

UpstreamReadFails ==
    \E r \in Slots, cause \in {"read_error", "read_timeout"} : ReadFails(r, cause)

\* the body of `async for token`: the disconnect poll (is_disconnected is
\* what request.is_disconnected() answers), encrypt_chunk, the
\* chunk event, chunk_sequence += 1, and stream_inference resumed up to its
\* next read (it breaks at once when the line had a finish_reason)
ForwardToken(r, is_disconnected) ==
    LET req == requests[r]
    IN  /\ req.pc = "token"
        /\ IF ENABLE_CLIENT_DISCONNECT_CANCELLATION /\ is_disconnected
           THEN /\ requests' = [requests EXCEPT ![r] =
                      [@ EXCEPT !.pc = "after_loop", !.abandoned = TRUE,
                                !.cause = "disconnect"]]
                /\ UNCHANGED inference_service
           ELSE /\ requests' = [requests EXCEPT ![r] =
                      [@ EXCEPT !.client_pubkey = Some(B64Decode(B64Encode(req.device_pubkey))),
                                !.events = Append(@, Event("chunk",
                                    EncryptChunk(req.token, req.device_pubkey,
                                                 req.chunk_sequence))),
                                !.chunk_sequence = @ + 1,
                                !.pc = IF req.finish THEN "after_loop" ELSE "reading",
                                !.cause = IF req.finish THEN "completed" ELSE @,
                                !.late = IF req.finish
                                         THEN now > req.request_deadline ELSE @]]
                /\ inference_service' =
                      IF req.finish THEN StreamClosed(inference_service)
                      ELSE inference_service
        /\ UNCHANGED <<clockVars, configVars, chunk_call, healthVars, keyVars, ledgerVars, breakerVars, limiterVars>>

ForwardTokens ==
    \E r \in Slots, is_disconnected \in BOOLEAN : ForwardToken(r, is_disconnected)

\* after the loop: encrypt_chunk("", client_pubkey, chunk_sequence) and the
\* `end` event; client_pubkey is a local assigned only inside the loop, so
\* with no chunk sent the read raises UnboundLocalError
AfterLoop(r) ==
    LET req == requests[r]
    IN  /\ req.pc = "after_loop"
        /\ IF req.client_pubkey = None
           THEN RaisedInStream(r, ERROR_BODY, req.cause, req.late)
           ELSE /\ requests' = [requests EXCEPT ![r] =
                      [@ EXCEPT !.pc = "end_sent",
                                !.events = Append(@, Event("end",
                                    EncryptChunk(EmptyString, req.client_pubkey[1],
                                                 req.chunk_sequence)))]]
                /\ UNCHANGED breakerVars
        /\ UNCHANGED <<clockVars, configVars, chunk_call, healthVars, keyVars, ledgerVars, limiterVars,
                       inference_service>>

EndOfLoop == \E r \in Slots : AfterLoop(r)

\* resumed after the `end` event: circuit_breaker.record_success()
FinishStream(r) ==
    /\ requests[r].pc = "end_sent"
    /\ LET b == RecordSuccess(circuit_breaker)
       IN  /\ circuit_breaker' = b
           /\ cbHist' = HistAfter(cbHist, "record_success", TRUE, circuit_breaker, b)
    /\ requests' = [requests EXCEPT ![r] =
                      [@ EXCEPT !.pc = "done", !.successes = @ + 1]]
    /\ UNCHANGED <<clockVars, configVars, chunk_call, healthVars, keyVars, ledgerVars, limiterVars, inference_service>>

FinishStreams == \E r \in Slots : FinishStream(r)

\* the suspended stream_inference generator of a request that broke out of
\* the loop is finalized: its `finally` runs
CloseAbandoned(r) ==
    /\ requests[r].abandoned
    /\ requests' = [requests EXCEPT ![r].abandoned = FALSE]
    /\ inference_service' = StreamClosed(inference_service)
    /\ UNCHANGED <<clockVars, configVars, chunk_call, healthVars, keyVars, ledgerVars, breakerVars, limiterVars>>

CloseAbandonedStreams == \E r \in Slots : CloseAbandoned(r)

\* a jump past the burst window but inside the others, and one past the
\* request budget (and so past all of them)
ChatJumps == {BURST_WINDOW_SECONDS + 1, REQUEST_BUDGET_SECONDS + 1}

TickChat ==
    /\ \E d \in ChatJumps : Advance(d, workload.ticks)
    /\ UNCHANGED <<configVars, chunk_call, healthVars, keyVars, ledgerVars, breakerVars, chatVars>>

Init ==
    /\ Constructed
    /\ chunk_call = NoChunkCall
    /\ workload \in Workloads
    /\ \E client \in BOOLEAN : inference_service = NewInferenceService(client)
    /\ \E cancellation \in BOOLEAN :
          settings = SettingsWith(DEFAULT_REQUEST_TTL_SECONDS, SmallThreshold,
                                  cancellation)

Next ==
    \/ Chat
    \/ StartStreams
    \/ UpstreamLine
    \/ UpstreamReadFails
    \/ ForwardTokens
    \/ EndOfLoop
    \/ FinishStreams
    \/ CloseAbandonedStreams
    \/ TickChat

Spec == Init /\ [][Next]_vars

\* ------------------------------------------------------------------------
\* Replay protection (HPKEService.decrypt_request)
\* ------------------------------------------------------------------------
\* a decrypt_request call happens in this step
DecryptStep == lastCall' # lastCall

\* Two acceptances of one request id lie at least the retention apart
NoTwoAcceptsWithinRetention ==
    \A e1, e2 \in acceptLog :
        (e1.request_id = e2.request_id /\ e1 # e2)
            => (e1.at - e2.at >= RETENTION_SECONDS \/ e2.at - e1.at >= RETENTION_SECONDS)

\* C1: once an envelope with request id X was accepted, every decrypt_request
\* with id X made less than one hour after that acceptance fails with the
\* replay-protection error, whatever its timestamp or ciphertext, and leaves
\* the ledger as it was; of requests with one id at most one is accepted
\* within the retention.
C1_ReplayRejectedWhileRetained ==
    /\ []NoTwoAcceptsWithinRetention
    /\ [][\A e \in acceptLog :
            (/\ DecryptStep
             /\ lastCall'.request_id = e.request_id
             /\ now - e.at < RETENTION_SECONDS)
                => (/\ lastCall'.outcome = REPLAY_ERROR
                    /\ seen_request_ids' = seen_request_ids)]_vars

\* C1 witness: an accepted id is sent again later, within the hour, with a
\* different and valid timestamp, and is refused
C1_Witness ==
    \E e \in acceptLog :
        /\ lastCall.request_id = e.request_id
        /\ lastCall.outcome = REPLAY_ERROR
        /\ lastCall.at > e.at
        /\ lastCall.at - e.at < RETENTION_SECONDS
        /\ lastCall.timestamp = lastCall.at
        /\ lastCall.timestamp # e.timestamp
        /\ lastCall.payload = "ok"

\* C2: an envelope (request id and timestamp) that decrypt_request accepted
\* is never accepted a second time, for every configured REQUEST_TTL_SECONDS.
C2_EnvelopeNeverAcceptedTwice == ~dupAccept

\* C3: an envelope whose timestamp is more than the TTL in the past or more
\* than 30 s in the future is rejected and the ledger is left as it was,
\* whether or not the id is in the ledger; a timestamp exactly TTL old or
\* exactly 30 s ahead, with an unseen id and a payload that decodes, is
\* accepted and its id recorded.
C3_TimestampWindow ==
    [][DecryptStep =>
        LET request_age == now - lastCall'.timestamp
        IN  /\ (request_age > REQUEST_TTL_SECONDS \/ request_age < -CLOCK_SKEW_SECONDS)
                => (/\ lastCall'.outcome = REPLAY_ERROR
                    /\ seen_request_ids' = seen_request_ids)
            /\ (/\ request_age \in {REQUEST_TTL_SECONDS, -CLOCK_SKEW_SECONDS}
                /\ lastCall'.request_id \notin DOMAIN seen_request_ids
                /\ lastCall'.payload = "ok")
                => (/\ lastCall'.outcome = ACCEPTED
                    /\ lastCall'.request_id \in DOMAIN seen_request_ids')]_vars

\* C3 witness: an envelope one second older than the TTL has just been
\* refused and its id, which was not in the ledger, still is not
C3_Witness ==
    /\ lastCall.outcome = REPLAY_ERROR
    /\ lastCall.at = now
    /\ lastCall.at - lastCall.timestamp = REQUEST_TTL_SECONDS + 1
    /\ lastCall.payload = "ok"
    /\ lastCall.request_id \notin DOMAIN seen_request_ids
    /\ DOMAIN seen_request_ids # {}

\* ------------------------------------------------------------------------
\* Circuit breaker (CircuitBreaker.record_success / record_failure)
\* ------------------------------------------------------------------------
\* a call on the breaker happens in this step
BreakerStep == cbHist'.calls # cbHist.calls

\* in Closed the failure counter is the number of failures recorded since the
\* last success or since Closed was entered, and it is below the threshold
ClosedCountsRun ==
    circuit_breaker.state = CLOSED
        => (/\ circuit_breaker.failure_count = cbHist.run
            /\ cbHist.run < CIRCUIT_BREAKER_THRESHOLD)

\* C10: in Closed the breaker opens exactly on the record_failure that brings
\* the number of failures since the last record_success (or since entering
\* Closed) to CIRCUIT_BREAKER_THRESHOLD; a record_success in Closed resets
\* the count and leaves the breaker Closed.
C10_OpensAtThreshold ==
    /\ []ClosedCountsRun
    /\ [][(BreakerStep /\ circuit_breaker.state = CLOSED) =>
            /\ (circuit_breaker'.state = OPEN)
                  <=> (/\ cbHist'.op = "record_failure"
                       /\ cbHist.run + 1 = CIRCUIT_BREAKER_THRESHOLD)
            /\ circuit_breaker'.state \in {CLOSED, OPEN}
            /\ cbHist'.op = "record_success"
                  => (/\ circuit_breaker'.state = CLOSED
                      /\ circuit_breaker'.failure_count = 0)]_vars

\* C10 witness: threshold-1 failures, a success, threshold-1 more failures,
\* with the default threshold, and the breaker is still Closed
C10_Witness ==
    /\ CIRCUIT_BREAKER_THRESHOLD = DEFAULT_CIRCUIT_BREAKER_THRESHOLD
    /\ circuit_breaker.state = CLOSED
    /\ cbHist.prevRun = CIRCUIT_BREAKER_THRESHOLD - 1
    /\ cbHist.run = CIRCUIT_BREAKER_THRESHOLD - 1
    /\ circuit_breaker.total_failures = 2 * (CIRCUIT_BREAKER_THRESHOLD - 1)

\* ------------------------------------------------------------------------
\* The response stream (chat_endpoint.event_stream)
\* ------------------------------------------------------------------------
IsChunk(e) == e.event = "chunk"

\* the chunk events of a response, in the order they were emitted
Chunks(req) == SelectSeq(req.events, IsChunk)

\* the events of a response after its chunks
AfterChunks(req) == SubSeq(req.events, Len(Chunks(req)) + 1, Len(req.events))

\* the response is over
Over(req) == req.pc = "done" /\ req.status = 200

\* C4: on every response, whatever other requests are streaming, the i-th
\* chunk event (i = 0, 1, ...) carries sequence i and the plaintext of the
\* i-th token that request's own upstream stream yielded; chunks come before
\* any other event, at most the token in hand is not forwarded yet, and a
\* stream that completed has forwarded every token.
C4_ChunksInOrder ==
    \A r \in Slots :
        LET req == requests[r]
            chunks == Chunks(req)
        IN  /\ Len(chunks) = req.chunk_sequence
            /\ \A i \in 1..Len(chunks) :
                  /\ req.events[i] = chunks[i]
                  /\ ChunkSequence(chunks[i].data) = i - 1
                  /\ ChunkPlaintext(chunks[i].data) = req.yielded[i]
                  /\ req.yielded[i] = <<req.serial, i>>
            /\ Len(req.yielded) - Len(chunks) \in {0, 1}
            /\ req.cause = "completed" => Len(req.yielded) = Len(chunks)

\* C4 witness: two responses are streaming at once, one has sent one chunk
\* and the other MaxTokens chunks
C4_Witness ==
    /\ requests[1].pc = "reading" /\ Len(Chunks(requests[1])) = 1
    /\ requests[2].pc = "reading" /\ Len(Chunks(requests[2])) = MaxTokens

\* C5: when the upstream stream ended normally after N tokens (N >= 0),
\* within the budget and with the client connected, the response is N chunks
\* and then exactly one `end` event whose chunk is empty and has sequence N,
\* without an `error` event, and one breaker success was recorded.
C5_NormalCompletion ==
    \A r \in Slots :
        LET req == requests[r]
        IN  (Over(req) /\ req.cause = "completed" /\ ~req.late) =>
                /\ Len(Chunks(req)) = Len(req.yielded)
                /\ Len(AfterChunks(req)) = 1
                /\ AfterChunks(req)[1].event = "end"
                /\ ChunkSequence(AfterChunks(req)[1].data) = Len(req.yielded)
                /\ ChunkPlaintext(AfterChunks(req)[1].data) = EmptyString
                /\ req.successes = 1
                /\ req.failures = 0

\* C6: when the request budget ran out while the upstream was still open,
\* also when the upstream stayed silent after the deadline, the response
\* ends with exactly one `error` event `Request timeout` and no `end`
\* event, and one breaker failure was recorded.
C6_BudgetExpiryTimesOut ==
    \A r \in Slots :
        LET req == requests[r]
        IN  (Over(req) /\ req.late /\ req.cause \in {"timeout", "read_timeout"}) =>
                /\ AfterChunks(req) = <<Event("error", TIMEOUT_BODY)>>
                /\ req.failures = 1
                /\ req.successes = 0

\* C7: when the handler saw the client gone at a token (the first one
\* included), that token and the later ones are not forwarded, there is no
\* `error` event, and the breaker records a success and no failure.
C7_DisconnectIsSilent ==
    \A r \in Slots :
        LET req == requests[r]
        IN  (Over(req) /\ req.cause = "disconnect") =>
                /\ Len(Chunks(req)) = Len(req.yielded) - 1
                /\ \A i \in 1..Len(req.events) : req.events[i].event # "error"
                /\ req.successes = 1
                /\ req.failures = 0

\* the upstream failures that are not timeouts
UpstreamErrors == {"connect_error", "http_status", "read_error"}

\* a response ends on an upstream failure in this step
UpstreamErrorStep(r) ==
    /\ requests[r].pc # "done"
    /\ requests'[r].pc = "done"
    /\ requests'[r].cause \in UpstreamErrors

\* a response that ended on an upstream failure: the chunks already sent,
\* then one `error` event `Internal server error`, and one failure recorded
EndsWithInternalError(req) ==
    /\ AfterChunks(req) = <<Event("error", ERROR_BODY)>>
    /\ req.failures = 1
    /\ req.successes = 0

\* C8: when the upstream fails with a connect error, a non-2xx status or a
\* read error, before the first token or after k chunks, the response is the
\* k chunks already sent, then exactly one `error` event `Internal server
\* error` and no `end` event, and the breaker records exactly one failure.
C8_UpstreamErrorIsInternalError ==
    /\ [](\A r \in Slots :
            (Over(requests[r]) /\ requests[r].cause \in UpstreamErrors)
                => EndsWithInternalError(requests[r]))
    /\ [][\A r \in Slots : UpstreamErrorStep(r) =>
            /\ circuit_breaker'.total_failures = circuit_breaker.total_failures + 1
            /\ cbHist'.op = "record_failure"
            /\ cbHist'.calls = cbHist.calls + 1
            /\ Chunks(requests'[r]) = Chunks(requests[r])]_vars

\* C8 witness: a response of one chunk and the error event, after a read
\* error, while another response ended on a connect error with no chunk
C8_Witness ==
    \E r, q \in Slots :
        /\ Over(requests[r]) /\ requests[r].cause = "read_error"
        /\ Len(requests[r].events) = 2
        /\ Over(requests[q]) /\ requests[q].cause = "connect_error"
        /\ Len(requests[q].events) = 1

\* ------------------------------------------------------------------------
\* Admission (chat_endpoint)
\* ------------------------------------------------------------------------
\* chat_endpoint handles a request in this step
ChatStep == rate_limiter'.total_requests = rate_limiter.total_requests + 1

\* the slot of the request handled in this step
Handled == CHOOSE r \in Slots : requests'[r].serial = rate_limiter'.total_requests

\* C9: the rate limiter is asked first, the breaker only when the limiter
\* let the request pass, decrypt_request only when both did: a 429 leaves
\* the breaker untouched, a 429 or a 503 leaves the ledger untouched and
\* starts no upstream stream.
C9_GatesInOrder ==
    [][ChatStep =>
        LET status == requests'[Handled].status
            blocked == rate_limiter'.blocked_requests # rate_limiter.blocked_requests
            asked == cbHist'.calls - cbHist.calls
        IN  /\ status \in {429, 503, 500, 200}
            /\ (status = 429) <=> blocked
            /\ status = 429 => (asked = 0 /\ UNCHANGED breakerVars)
            /\ status = 503 => (/\ asked = 1
                                /\ cbHist'.op = "can_make_request"
                                /\ ~cbHist'.ret)
            /\ status \in {500, 200} => asked >= 1
            /\ status \in {429, 503} =>
                  /\ UNCHANGED <<ledgerVars, inference_service>>
                  /\ requests'[Handled].pc = "done"
                  /\ requests'[Handled].events = <<>>
            /\ status = 200 =>
                  requests'[Handled].request_id \in DOMAIN seen_request_ids']_vars

\* C9 witness: an envelope was refused by the rate limiter, was sent again
\* later, and was accepted then
C9_Witness ==
    \E r, q \in Slots :
        /\ requests[r].status = 429
        /\ requests[q].status = 200
        /\ requests[q].request_id = requests[r].request_id
        /\ requests[q].timestamp = requests[r].timestamp
        /\ requests[q].serial > requests[r].serial
        /\ lastCall.outcome = ACCEPTED
        /\ lastCall.request_id = requests[q].request_id
        /\ lastCall.at > lastCall.timestamp

\* ------------------------------------------------------------------------
\* Circuit breaker: Open and Half-Open (CircuitBreaker.can_make_request)
\* ------------------------------------------------------------------------
\* can_make_request is called in this step
AdmissionStep == BreakerStep /\ cbHist'.op = "can_make_request"

\* seconds since the last recorded failure
SinceLastFailure == now - circuit_breaker.last_failure_time[1]

\* while Open a failure has been recorded
OpenHasFailureTime ==
    circuit_breaker.state = OPEN => circuit_breaker.last_failure_time # None

\* C11: while the breaker is Open, a can_make_request made less than
\* CIRCUIT_RESET_SECONDS after the last recorded failure returns false and
\* leaves the breaker Open; one made at or after the reset interval returns
\* true and moves the breaker to Half-Open.
C11_OpenUntilReset ==
    /\ []OpenHasFailureTime
    /\ [][(AdmissionStep /\ circuit_breaker.state = OPEN) =>
            IF SinceLastFailure < CIRCUIT_RESET_SECONDS
            THEN /\ ~cbHist'.ret
                 /\ circuit_breaker'.state = OPEN
                 /\ circuit_breaker'.last_failure_time = circuit_breaker.last_failure_time
            ELSE /\ cbHist'.ret
                 /\ circuit_breaker'.state = HALF_OPEN]_vars

\* C11 witness: a can_make_request made exactly CIRCUIT_RESET_SECONDS after
\* the last failure has just been admitted and the breaker is Half-Open
C11_Witness ==
    /\ circuit_breaker.state = HALF_OPEN
    /\ cbHist.op = "can_make_request"
    /\ cbHist.ret
    /\ SinceLastFailure = CIRCUIT_RESET_SECONDS
    /\ circuit_breaker.success_count = 0

\* C12: of the can_make_request calls made in Half-Open before any
\* record_success or record_failure, none is admitted: only the call that
\* moved the breaker from Open to Half-Open returns true.
C12_OneTrialInHalfOpen ==
    [][(/\ AdmissionStep
        /\ circuit_breaker.state = HALF_OPEN
        /\ circuit_breaker.success_count = 0) => ~cbHist'.ret]_vars

\* in Half-Open the success counter is the number of successes recorded
\* since Half-Open was entered, and it is below HALF_OPEN_SUCCESSES
HalfOpenCountsTrial ==
    circuit_breaker.state = HALF_OPEN
        => (/\ circuit_breaker.success_count = cbHist.trial
            /\ cbHist.trial < HALF_OPEN_SUCCESSES)

\* C13: in Half-Open the third record_success since Half-Open was entered
\* moves the breaker to Closed with the failure counter at zero (so that, by
\* ClosedCountsRun, a full threshold of new failures is needed to open it
\* again); the first and the second leave it Half-Open.
C13_ThreeSuccessesClose ==
    /\ []HalfOpenCountsTrial
    /\ []ClosedCountsRun
    /\ [][(/\ BreakerStep
           /\ circuit_breaker.state = HALF_OPEN
           /\ cbHist'.op = "record_success") =>
            IF cbHist.trial + 1 = HALF_OPEN_SUCCESSES
            THEN /\ circuit_breaker'.state = CLOSED
                 /\ circuit_breaker'.failure_count = 0
                 /\ cbHist'.run = 0
            ELSE /\ circuit_breaker'.state = HALF_OPEN
                 /\ cbHist'.trial = cbHist.trial + 1]_vars

\* C13 witness: the breaker opened, went Half-Open, was closed by the third
\* success, and has since taken threshold-1 new failures and is still Closed
C13_Witness ==
    /\ circuit_breaker.state = CLOSED
    /\ circuit_breaker.state_transitions = 3
    /\ cbHist.run = CIRCUIT_BREAKER_THRESHOLD - 1
    /\ circuit_breaker.total_failures = 2 * CIRCUIT_BREAKER_THRESHOLD - 1

\* C14: in Half-Open a record_failure moves the breaker to Open and restarts
\* the reset timer at that failure; no call is admitted from Open before
\* CIRCUIT_RESET_SECONDS have elapsed since the last failure, and the next
\* Half-Open period starts with no success counted.
C14_HalfOpenFailureReopens ==
    [][BreakerStep =>
        /\ (circuit_breaker.state = HALF_OPEN /\ cbHist'.op = "record_failure")
              => (/\ circuit_breaker'.state = OPEN
                  /\ circuit_breaker'.last_failure_time = Some(now))
        /\ (circuit_breaker.state = OPEN /\ cbHist'.op = "can_make_request"
                /\ cbHist'.ret)
              => (/\ SinceLastFailure >= CIRCUIT_RESET_SECONDS
                  /\ circuit_breaker'.state = HALF_OPEN
                  /\ circuit_breaker'.success_count = 0
                  /\ cbHist'.trial = 0)]_vars

\* C14 witness: a failure ended a first Half-Open period, and exactly
\* CIRCUIT_RESET_SECONDS after it a second one has begun with no success
\* counted
C14_Witness ==
    /\ circuit_breaker.state = HALF_OPEN
    /\ circuit_breaker.state_transitions = 4
    /\ circuit_breaker.success_count = 0
    /\ cbHist.op = "can_make_request"
    /\ SinceLastFailure = CIRCUIT_RESET_SECONDS
    /\ circuit_breaker.total_failures = CIRCUIT_BREAKER_THRESHOLD + 1
    /\ cbHist.calls > CIRCUIT_BREAKER_THRESHOLD + 3

\* ------------------------------------------------------------------------
\* Rejected envelopes (chat_endpoint's outer `except Exception`)
\* ------------------------------------------------------------------------
\* the request handled in this step was rejected inside the handler's `try`
\* before a stream was made: by decrypt_request (replay, timestamp, decode)
\* or on reading the payload's first message
RejectedStep == ChatStep /\ requests'[Handled].raised # "none"

\* C15: a request rejected by the envelope service records neither a success
\* nor a failure on the circuit breaker: the failure counter is the same
\* before and after it, and the request takes the breaker neither from
\* Closed to Open nor from Half-Open back to Open.
C15_RejectionLeavesBreakerAlone ==
    [][RejectedStep =>
        /\ requests'[Handled].failures = 0
        /\ requests'[Handled].successes = 0
        /\ circuit_breaker'.failure_count = circuit_breaker.failure_count
        /\ circuit_breaker'.total_failures = circuit_breaker.total_failures
        /\ circuit_breaker.state \in {CLOSED, HALF_OPEN} =>
              circuit_breaker'.state = circuit_breaker.state]_vars

\* a request that was rejected inside the handler's `try`
Rejected(req) == req.pc = "done" /\ req.raised # "none"

\* C16: a request whose envelope is rejected (replay, timestamp, decoding,
\* payload parsing) is answered with HTTP 400, and the upstream is never
\* contacted for it.
C16_RejectedIsBadRequest ==
    \A r \in Slots :
        Rejected(requests[r]) =>
            /\ requests[r].status = 400
            /\ requests[r].yielded = <<>>
            /\ requests[r].events = <<>>
            /\ requests[r].cause = "none"

\* what the client sees of a request that ended without a stream
Response(req) == <<req.status, req.detail, req.events>>

Opaque(a, b) ==
    {a.raised, b.raised} = {REPLAY_ERROR, DECRYPT_ERROR} =>
        Response(a) = Response(b)

RejectionsOpaque == \A r, q \in Slots : Opaque(requests[r], requests[q])

AllowStep == rlHist'.calls = rlHist.calls + 1

\* how many of the requests let pass so far came from the address, or
\* presented the device key, at an instant within [lo, hi]
AdmittedByAddress(client_ip, lo, hi) ==
    Cardinality({i \in DOMAIN rlHist.admitted :
                    /\ rlHist.admitted[i].client_ip = client_ip
                    /\ lo <= rlHist.admitted[i].at
                    /\ rlHist.admitted[i].at <= hi})

AdmittedByDevice(device_pubkey, lo, hi) ==
    Cardinality({i \in DOMAIN rlHist.admitted :
                    /\ rlHist.admitted[i].device_pubkey = device_pubkey
                    /\ lo <= rlHist.admitted[i].at
                    /\ rlHist.admitted[i].at <= hi})

MinuteFull(client_ip, device_pubkey, t) ==
    \/ AdmittedByAddress(client_ip, t - WINDOW_SECONDS, t) >= RATE_LIMIT_PER_MINUTE
    \/ AdmittedByDevice(device_pubkey, t - WINDOW_SECONDS, t) >= RATE_LIMIT_PER_MINUTE

BurstFull(client_ip, device_pubkey, t) ==
    \/ AdmittedByAddress(client_ip, t - BURST_WINDOW_SECONDS, t) >= RATE_LIMIT_BURST
    \/ AdmittedByDevice(device_pubkey, t - BURST_WINDOW_SECONDS, t) >= RATE_LIMIT_BURST

\* how often the instant t stands in a window
Occurrences(window, t) == Cardinality({i \in DOMAIN window : window[i] = t})

AppendedTo(before, after, t) ==
    /\ after # <<>>
    /\ after[Len(after)] = t
    /\ Occurrences(after, t) = Occurrences(before, t) + 1

\* C18: with the limiter enabled, allow_request(a, d) at time t returns false
\* if and only if, among the requests admitted before, the address a or the
\* device key d has at least RATE_LIMIT_PER_MINUTE within [t-60, t] or at
\* least RATE_LIMIT_BURST within [t-10, t]; on admit t is appended to the
\* window of a and to the window of d, and on refusal to neither.
C18_RefusedIffWindowFull ==
    [][(AllowStep /\ rate_limiter.enabled) =>
        LET a == rlHist'.client_ip
            d == rlHist'.device_pubkey
            t == rlHist'.at
            ip_before == Window(rate_limiter.ip_windows, a)
            ip_after == Window(rate_limiter'.ip_windows, a)
            dev_before == Window(rate_limiter.device_windows, d)
            dev_after == Window(rate_limiter'.device_windows, d)
        IN  /\ t = now
            /\ ~rlHist'.ret <=> (MinuteFull(a, d, t) \/ BurstFull(a, d, t))
            /\ rlHist'.ret => /\ AppendedTo(ip_before, ip_after, t)
                              /\ AppendedTo(dev_before, dev_after, t)
            /\ ~rlHist'.ret => /\ Occurrences(ip_after, t) = Occurrences(ip_before, t)
                               /\ Occurrences(dev_after, t) = Occurrences(dev_before, t)]_vars

\* C18 witness: a request has just been refused for its device key alone,
\* which has RATE_LIMIT_PER_MINUTE admissions in the last minute, the oldest
\* exactly 60 s old; the burst limit is not reached and the address is
\* below both limits
C18_Witness ==
    /\ rate_limiter.enabled
    /\ rlHist.calls > 0 /\ ~rlHist.ret /\ rlHist.at = now
    /\ AdmittedByDevice(rlHist.device_pubkey, now - WINDOW_SECONDS, now)
          = RATE_LIMIT_PER_MINUTE
    /\ AdmittedByDevice(rlHist.device_pubkey, now - WINDOW_SECONDS + 1, now)
          < RATE_LIMIT_PER_MINUTE
    /\ AdmittedByAddress(rlHist.client_ip, now - WINDOW_SECONDS, now)
          < RATE_LIMIT_PER_MINUTE
    /\ ~BurstFull(rlHist.client_ip, rlHist.device_pubkey, now)

\* the instants at which a trailing window holds the most admissions: the
\* present, each admission, and the last instants whose windows hold it
Instants ==
    {now} \cup
    UNION {{rlHist.admitted[i].at,
            rlHist.admitted[i].at + BURST_WINDOW_SECONDS,
            rlHist.admitted[i].at + WINDOW_SECONDS} : i \in DOMAIN rlHist.admitted}

AddressesSeen == {rlHist.admitted[i].client_ip : i \in DOMAIN rlHist.admitted}
DevicesSeen == {rlHist.admitted[i].device_pubkey : i \in DOMAIN rlHist.admitted}

\* C19: with the limiter enabled, for every client address and device key
\* and every instant t, the requests admitted for it within [t-60, t] number
\* at most RATE_LIMIT_PER_MINUTE, and those within [t-10, t] at most
\* RATE_LIMIT_BURST.
C19_AdmissionsBounded ==
    rate_limiter.enabled =>
        \A t \in Instants :
            /\ \A a \in AddressesSeen :
                  /\ AdmittedByAddress(a, t - WINDOW_SECONDS, t) <= RATE_LIMIT_PER_MINUTE
                  /\ AdmittedByAddress(a, t - BURST_WINDOW_SECONDS, t) <= RATE_LIMIT_BURST
            /\ \A d \in DevicesSeen :
                  /\ AdmittedByDevice(d, t - WINDOW_SECONDS, t) <= RATE_LIMIT_PER_MINUTE
                  /\ AdmittedByDevice(d, t - BURST_WINDOW_SECONDS, t) <= RATE_LIMIT_BURST

\* C19 witness: an address stands at both limits at once, its oldest
\* admission of the minute exactly 60 s old, and a further request from it
\* has just been refused
C19_Witness ==
    /\ rate_limiter.enabled
    /\ ~rlHist.ret /\ rlHist.at = now
    /\ AdmittedByAddress(rlHist.client_ip, now - WINDOW_SECONDS, now)
          = RATE_LIMIT_PER_MINUTE
    /\ AdmittedByAddress(rlHist.client_ip, now - WINDOW_SECONDS + 1, now)
          < RATE_LIMIT_PER_MINUTE
    /\ AdmittedByAddress(rlHist.client_ip, now - BURST_WINDOW_SECONDS, now)
          = RATE_LIMIT_BURST

\* ------------------------------------------------------------------------
\* Key rotation (rotate_keys beside the other calls)
\* ------------------------------------------------------------------------
\* the public key is the one derived from the private key
SamePair(pair) ==
    /\ pair[1] # None
    /\ pair[2] = PublicKeyToBytes(PublicKey(pair[1]))

\* between calls the service holds a current pair and a next pair
KeysPaired ==
    /\ SamePair(CurrentPair(hpke_service))
    /\ SamePair(<<hpke_service.next_private_key, hpke_service.next_public_key>>)
    /\ hpke_service.next_private_key # hpke_service.current_private_key

\* a call on the key pairs is made in this step
KeyStep == keyHist'.calls = keyHist.calls + 1

\* the stream that is followed yields its chunks in order, whatever
\* rotations were made in between
SessionInOrder ==
    \A i \in DOMAIN keyHist.session.chunks :
        LET data == keyHist.session.chunks[i].data
        IN  /\ ChunkSequence(data) = i - 1
            /\ ChunkPlaintext(data) = IF i = MaxTokens + 1 THEN EmptyString
                                      ELSE <<1, i>>

\* C20: every call (decrypt_request, encrypt_chunk, get_public_keys) finds a
\* current public key and a current private key of one pair, the pair before
\* a rotation or the pair after it: rotate_keys leaves as current pair the
\* whole former next pair, and no other call changes the pair; and a request
\* that was decrypted before a rotation has its chunks encrypted normally
\* after it.
C20_RotationIsAtomic ==
    /\ []KeysPaired
    /\ []SessionInOrder
    /\ [][KeyStep =>
            /\ keyHist'.found = CurrentPair(hpke_service)
            /\ SamePair(keyHist'.found)
            /\ keyHist'.left = CurrentPair(hpke_service')
            /\ IF keyHist'.op = "rotate_keys"
               THEN /\ keyHist'.left = <<hpke_service.next_private_key,
                                         hpke_service.next_public_key>>
                    /\ keyHist'.left # keyHist'.found
               ELSE /\ keyHist'.left = keyHist'.found
                    /\ keyHist'.ret # None
            /\ keyHist'.op = "get_public_keys" =>
                  B64Decode(keyHist'.ret[1].current_pubkey) = keyHist'.found[2]
            /\ keyHist'.op = "encrypt_chunk" =>
                  ChunkSequence(keyHist'.ret[1]) = keyHist.session.chunk_sequence]_vars

\* C20 witness: a request was decrypted and had its first chunk encrypted
\* under the first pair, the keys were rotated, and the rest of its stream,
\* end event included, was encrypted under the second pair
C20_Witness ==
    /\ keyHist.op = "encrypt_chunk"
    /\ ~keyHist.session.open
    /\ Len(keyHist.session.chunks) = MaxTokens + 1
    /\ keyHist.session.chunks[1].rotations = 0
    /\ keyHist.session.chunks[2].rotations = 1
    /\ keyHist.rotations = 1
    /\ keyHist.found = <<GeneratePrivateKey(2),
                         PublicKeyToBytes(PublicKey(GeneratePrivateKey(2)))>>

\* ------------------------------------------------------------------------
\* The key pairs across rotations, saves and restarts
\* ------------------------------------------------------------------------
\* rotate_keys is called in this step
RotationStep == keyHist'.rotations = keyHist.rotations + 1

NextPair(h) == <<h.next_private_key, h.next_public_key>>

\* the next pair is there: a private key and the public key derived from it
NextPopulated == SamePair(NextPair(hpke_service))

\* C21: after rotate_keys the current pair is the pair that was next, whose
\* public key get_public_keys advertised as next_pubkey; the next pair is a
\* newly drawn pair, different from the new current pair and from both
\* pairs held before; the expiry is one rotation period after the call; and
\* the next pair is populated after initialization and after every rotation.
C21_RotationPromotesNext ==
    /\ []NextPopulated
    /\ [][RotationStep =>
            /\ CurrentPair(hpke_service') = NextPair(hpke_service)
            /\ B64Encode(hpke_service'.current_public_key)
                  = GetPublicKeys(hpke_service).next_pubkey
            /\ SamePair(NextPair(hpke_service'))
            /\ hpke_service'.next_private_key \notin
                  {hpke_service'.current_private_key,
                   hpke_service.current_private_key}
            /\ hpke_service'.next_public_key \notin
                  {hpke_service'.current_public_key,
                   hpke_service.current_public_key}
            /\ hpke_service'.key_expires_at = now + KEY_ROTATION_SECONDS]_vars

\* C21 witness: the keys have just been rotated a second time, one period
\* after the first rotation: the third key drawn is current, the fourth next
C21_Witness ==
    /\ keyHist.op = "rotate_keys"
    /\ keyHist.rotations = 2
    /\ hpke_service.current_private_key = GeneratePrivateKey(3)
    /\ hpke_service.next_private_key = GeneratePrivateKey(4)
    /\ hpke_service.key_expires_at = now + KEY_ROTATION_SECONDS
    /\ now = StartInstant + 2 * KEY_ROTATION_SECONDS

\* the two key files hold the two halves of the in-memory current pair
FilesHoldCurrentPair ==
    /\ key_files.private = PrivateKeyToBytes(hpke_service.current_private_key)
    /\ key_files.public = hpke_service.current_public_key

\* C22: rotate_keys is all-or-nothing: when it returns or raises, either the
\* current pair, the key id, the expiry and both key files are those of the
\* new pair, or the service and the files are as they were; and the two key
\* files always hold the two halves of the in-memory current pair.
C22_RotationAllOrNothing ==
    /\ []FilesHoldCurrentPair
    /\ [][RotationStep =>
            \/ /\ CurrentPair(hpke_service') = NextPair(hpke_service)
               /\ hpke_service'.key_id = KeyIdAt(now)
               /\ hpke_service'.key_expires_at = now + KEY_ROTATION_SECONDS
               /\ key_files'.private
                     = PrivateKeyToBytes(hpke_service'.current_private_key)
               /\ key_files'.public = hpke_service'.current_public_key
            \/ /\ hpke_service' = hpke_service
               /\ key_files' = key_files]_vars

\* the process is started again in this step
RestartStep == keyHist'.restarts = keyHist.restarts + 1

\* C23: an instance initialized from the key files an earlier instance left
\* exposes the same current public key and the same key id as the earlier
\* instance did, after any number of rotations by the earlier instance.
C23_RestartKeepsKeyAndId ==
    [][RestartStep =>
        /\ GetPublicKeys(hpke_service').current_pubkey
              = GetPublicKeys(hpke_service).current_pubkey
        /\ GetPublicKeys(hpke_service').key_id
              = GetPublicKeys(hpke_service).key_id]_vars

\* the digits of a key id, as a number
KeyIdNumber(key_id) == key_id[2]

\* C24: every rotate_keys call changes the key id, to a greater one: the
\* pair that becomes current is never published under the id of the pair
\* it replaces.
C24_RotationChangesKeyId ==
    [][RotationStep =>
        /\ CurrentPair(hpke_service') # CurrentPair(hpke_service)
        /\ hpke_service'.key_id # hpke_service.key_id
        /\ KeyIdNumber(hpke_service'.key_id)
              > KeyIdNumber(hpke_service.key_id)]_vars

\* ------------------------------------------------------------------------
\* C25: at every probe, the probed record's status changes if and only if
\* the probe brings its run of consecutive failures to UNHEALTHY_THRESHOLD
\* while it is Unknown or Healthy (it becomes Unhealthy), or its run of
\* consecutive successes to HEALTHY_THRESHOLD while it is Unknown or
\* Unhealthy (it becomes Healthy); no other record changes.
\* ------------------------------------------------------------------------
ProbeStep == hmHist'.runs # hmHist.runs

StatusOf(hm, endpoint) == hm.nodes[endpoint].status

C25_StatusChangesAtThreshold ==
    [][ProbeStep =>
         LET e == hmHist'.endpoint
             before == StatusOf(health_monitor, e)
             after == StatusOf(health_monitor', e)
             run == hmHist'.runs[e]
         IN  /\ after # before <=>
                  \/ /\ ~run.is_healthy
                     /\ run.n = UNHEALTHY_THRESHOLD
                     /\ before \in {UNKNOWN, HEALTHY}
                  \/ /\ run.is_healthy
                     /\ run.n = HEALTHY_THRESHOLD
                     /\ before \in {UNKNOWN, UNHEALTHY}
             /\ after # before =>
                  after = IF run.is_healthy THEN HEALTHY ELSE UNHEALTHY
             /\ \A other \in Range(Endpoints) \ {e} :
                  StatusOf(health_monitor', other)
                    = StatusOf(health_monitor, other)]_vars

\* a record went Unknown -> Unhealthy and then became Healthy at the
\* success that completed its run
C25_Witness ==
    \E e \in Range(Endpoints) :
       /\ hmHist.changes[e] = 2
       /\ StatusOf(health_monitor, e) = HEALTHY
       /\ hmHist.runs[e].is_healthy
       /\ hmHist.runs[e].n = HEALTHY_THRESHOLD

\* ------------------------------------------------------------------------
\* C26: every call of get_healthy_endpoint returns an endpoint whose record
\* is Healthy at that moment when some record is Healthy, and the first
\* configured endpoint when none is; the url stream_inference posts to is
\* that endpoint's.
\* ------------------------------------------------------------------------
EndpointStep == hmHist'.calls = hmHist.calls + 1

HealthyNow == {e \in Range(Endpoints) : StatusOf(health_monitor, e) = HEALTHY}

C26_ReturnsHealthyOrFirst ==
    [][EndpointStep =>
         /\ HealthyNow # {} => hmHist'.endpoint \in HealthyNow
         /\ HealthyNow = {} => hmHist'.endpoint = Endpoints[1]
         /\ hmHist'.url = Some(<<hmHist'.endpoint, COMPLETIONS_PATH>>)]_vars

\* a stream was given a Healthy endpoint while the first configured one
\* was not Healthy
C26_Witness ==
    /\ hmHist.op = "get_healthy_endpoint"
    /\ hmHist.endpoint \in HealthyNow
    /\ Endpoints[1] \notin HealthyNow
    /\ hmHist.url = Some(<<hmHist.endpoint, COMPLETIONS_PATH>>)

\* ------------------------------------------------------------------------
\* C27: while the healthy set has not been modified and has n >= 1 members,
\* every n consecutive calls of get_healthy_endpoint made since then
\* returned each healthy endpoint exactly once.
\* ------------------------------------------------------------------------
ReturnedIn(from, to) == {hmHist.returned[j] : j \in from..to}

C27_RoundRobinDistinct ==
    LET n == Cardinality(health_monitor.healthy_nodes)
    IN  n >= 1 =>
          \A i \in 1..Len(hmHist.returned) :
             i + n - 1 <= Len(hmHist.returned) =>
                ReturnedIn(i, i + n - 1) = health_monitor.healthy_nodes

\* more calls than healthy endpoints were made on an unmodified set of at
\* least two, so the round-robin came round
C27_Witness ==
    /\ Cardinality(health_monitor.healthy_nodes) >= 2
    /\ Len(hmHist.returned) > Cardinality(health_monitor.healthy_nodes)
    /\ hmHist.returned[1] # Endpoints[1]

\* ------------------------------------------------------------------------
\* C28: for every encodable plaintext P, recipient key R and sequence
\* s >= 0, encrypt_chunk(P, R, s) returns a serialized object with exactly
\* the fields encapsulated_key, ciphertext, aad and sequence, whose sequence
\* is s, whose decoded aad is chunk-<s>, and whose decoded ciphertext is P
\* (also for the empty P).
\* ------------------------------------------------------------------------
ChunkReturned == chunk_call.ret # None /\ Encodable(chunk_call.chunk_data)

CHUNK_FIELDS == {"encapsulated_key", "ciphertext", "aad", "sequence"}

C28_ChunkCarriesPlaintextAndSequence ==
    ChunkReturned =>
       LET data == chunk_call.ret[1]
       IN  /\ DOMAIN JsonLoads(data) = CHUNK_FIELDS
           /\ ChunkSequence(data) = chunk_call.sequence
           /\ B64Decode(JsonLoads(data).aad) = <<"chunk-", chunk_call.sequence>>
           /\ ChunkPlaintext(data) = chunk_call.chunk_data

\* the empty terminal chunk was encrypted after other chunks
C28_Witness ==
    /\ ChunkReturned
    /\ chunk_call.chunk_data = EmptyString
    /\ chunk_call.sequence > 0

\* ------------------------------------------------------------------------
\* C29: a chunk returned by encrypt_chunk(P, R, s) is sealed to R: the
\* call for another recipient key returns a different chunk, and decoding
\* the chunk without any key does not give P.
\* ------------------------------------------------------------------------
C29_ChunkSealedToRecipient ==
    ChunkReturned =>
       LET data == chunk_call.ret[1]
       IN  /\ \A other \in RecipientKeys \ {chunk_call.recipient_public_key} :
                EncryptChunk(chunk_call.chunk_data, other,
                             chunk_call.sequence) # data
           /\ ChunkPlaintext(data) # chunk_call.chunk_data

\* ------------------------------------------------------------------------
\* C30: stream_inference yields only the contents of lines that precede the
\* first terminator: whenever it yields a token, the line the token came
\* from is not a terminator (it carries no finish_reason).
\* ------------------------------------------------------------------------
YieldStep(r) == requests'[r].yielded # requests[r].yielded

C30_TerminatorYieldsNoToken ==
    [][\A r \in Slots : YieldStep(r) => ~requests'[r].finish]_vars

\* ------------------------------------------------------------------------
\* C31: a response stream that has run to its end holds exactly one
\* terminal event (end or error), as its last event; and a request whose
\* stream was opened has had at most one of record_success / record_failure
\* called for it, exactly one once the stream has ended: record_success if
\* and only if the terminal event is end.
\* ------------------------------------------------------------------------
Terminal(e) == e.event \in {"end", "error"}

TerminalEvents(req) == {i \in 1..Len(req.events) : Terminal(req.events[i])}

StreamOpened(req) == req.status = 200

StreamEnded(req) == StreamOpened(req) /\ req.pc = "done"

C31_OneTerminalEventOneRecord ==
    \A r \in Slots :
       LET req == requests[r]
       IN  /\ StreamOpened(req) =>
                /\ req.successes + req.failures <= 1
                /\ Cardinality(TerminalEvents(req)) <= 1
                /\ TerminalEvents(req) \subseteq {Len(req.events)}
           /\ StreamEnded(req) =>
                /\ TerminalEvents(req) = {Len(req.events)}
                /\ req.successes + req.failures = 1
                /\ req.successes = 1 <=>
                      req.events[Len(req.events)].event = "end"

\* both endings side by side: one stream ended with chunks and end, the
\* other with an error after a chunk
C31_Witness ==
    \E r, q \in Slots :
       /\ StreamEnded(requests[r]) /\ StreamEnded(requests[q])
       /\ requests[r].successes = 1 /\ Len(requests[r].events) > 1
       /\ requests[q].failures = 1 /\ Len(requests[q].events) > 1

\* ------------------------------------------------------------------------
\* C32: a decrypt_request call that passes the replay check and then fails
\* to decode leaves its request id recorded in the ledger, at the instant
\* of the call; and a call whose id is recorded by such a failed call is
\* rejected as a replay, whatever its ciphertext, and leaves the ledger as
\* it was.
\* ------------------------------------------------------------------------
\* the ledger entry of request_id was made by a call that was not accepted
RecordedByFailedCall(request_id) ==
    /\ request_id \in DOMAIN seen_request_ids
    /\ ~\E a \in acceptLog : /\ a.request_id = request_id
                              /\ a.at = seen_request_ids[request_id]

C32_FailedDecryptKeepsId ==
    [][DecryptStep =>
         /\ lastCall'.outcome = DECRYPT_ERROR =>
               /\ lastCall'.request_id \in DOMAIN seen_request_ids'
               /\ seen_request_ids'[lastCall'.request_id] = now
         /\ RecordedByFailedCall(lastCall'.request_id) =>
               /\ lastCall'.outcome = REPLAY_ERROR
               /\ seen_request_ids' = seen_request_ids]_vars

\* a fresh envelope with a valid ciphertext was rejected as a replay
\* because an earlier call with its id had failed to decode
C32_Witness ==
    /\ lastCall.outcome = REPLAY_ERROR
    /\ lastCall.payload = "ok"
    /\ lastCall.timestamp = now
    /\ RecordedByFailedCall(lastCall.request_id)
    /\ seen_request_ids[lastCall.request_id] < now

\* ------------------------------------------------------------------------
\* C33: right after a decrypt_request call that passes the replay check the
\* ledger holds the call's id at the instant of the call, holds no entry
\* made more than one hour earlier, and still holds, unchanged, every entry
\* it held before that was made less than one hour earlier; a call rejected
\* by the replay check leaves the ledger exactly as it was.
\* ------------------------------------------------------------------------
PassedReplayCheck(outcome) == outcome # REPLAY_ERROR

C33_EvictionOnInsertionOnly ==
    [][DecryptStep =>
         IF PassedReplayCheck(lastCall'.outcome)
         THEN /\ lastCall'.request_id \in DOMAIN seen_request_ids'
              /\ seen_request_ids'[lastCall'.request_id] = now
              /\ \A rid \in DOMAIN seen_request_ids' :
                    now - seen_request_ids'[rid] <= RETENTION_SECONDS
              /\ \A rid \in DOMAIN seen_request_ids :
                    now - seen_request_ids[rid] < RETENTION_SECONDS =>
                       /\ rid \in DOMAIN seen_request_ids'
                       /\ seen_request_ids'[rid] = seen_request_ids[rid]
         ELSE seen_request_ids' = seen_request_ids]_vars

\* an insertion evicted the entry of a request accepted more than an hour
\* before
C33_Witness ==
    /\ PassedReplayCheck(lastCall.outcome)
    /\ lastCall.at = now
    /\ \E a \in acceptLog :
          /\ a.request_id # lastCall.request_id
          /\ now - a.at > RETENTION_SECONDS
          /\ a.request_id \notin DOMAIN seen_request_ids

\* ------------------------------------------------------------------------
\* C34: get_healthy_endpoint never waits for a probe: in every state, also
\* while a probe's answer is outstanding, a stream that asks for an endpoint
\* gets one at once.
\* ------------------------------------------------------------------------
C34_EndpointNeverWaitsForProbe ==
    hmHist.calls < MaxEndpointCalls => ENABLED StreamChoosesEndpoint

\* ------------------------------------------------------------------------
\* C35: a refused allow_request adds no timestamp to any window (each
\* window it leaves is what remains of the window it found after entries
\* were dropped from its front), also when the address check passed and the
\* device check failed; and it changes no later verdict: every client gets,
\* at this and at every later instant, the verdict it would have got had
\* the refused call not been made.
\* ------------------------------------------------------------------------
IsSuffix(after, before) ==
    /\ Len(after) <= Len(before)
    /\ after = SubSeq(before, Len(before) - Len(after) + 1, Len(before))

LaterInstants == {now} \cup {now + d : d \in LimiterJumps}

VerdictOf(rl, c, t) ==
    AllowRequest(rl, c.client_ip, c.device_pubkey, t,
                 RATE_LIMIT_PER_MINUTE, RATE_LIMIT_BURST).ret

C35_RefusalAddsNoTimestamp ==
    [][(AllowStep /\ rate_limiter.enabled /\ ~rlHist'.ret) =>
         /\ \A a \in LimiterAddresses :
               IsSuffix(Window(rate_limiter'.ip_windows, a),
                        Window(rate_limiter.ip_windows, a))
         /\ \A d \in LimiterDevices :
               IsSuffix(Window(rate_limiter'.device_windows, d),
                        Window(rate_limiter.device_windows, d))
         /\ \A c \in LimiterClients, t \in LaterInstants :
               VerdictOf(rate_limiter', c, t) = VerdictOf(rate_limiter, c, t)]_vars

\* after refused attempts, a request was admitted at the first instant at
\* which the burst of its device key, admitted eleven seconds before, no
\* longer counted
C35_Witness ==
    /\ rate_limiter.enabled
    /\ rlHist.ret /\ rlHist.at = now
    /\ rlHist.calls > Len(rlHist.admitted)
    /\ AdmittedByDevice(rlHist.device_pubkey, now - BURST_WINDOW_SECONDS - 1,
                        now - BURST_WINDOW_SECONDS - 1) = RATE_LIMIT_BURST
    /\ AdmittedByDevice(rlHist.device_pubkey, now - BURST_WINDOW_SECONDS,
                        now - 1) = 0

\* ------------------------------------------------------------------------
\* C36: in every state of the enabled breaker, Closed implies
\* failure_count < CIRCUIT_BREAKER_THRESHOLD, Open implies that
\* last_failure_time is set, and Half-Open implies success_count < 3.
\* ------------------------------------------------------------------------
C36_StateBoundsCounters ==
    circuit_breaker.enabled =>
       /\ circuit_breaker.state = CLOSED =>
             circuit_breaker.failure_count < CIRCUIT_BREAKER_THRESHOLD
       /\ circuit_breaker.state = OPEN =>
             circuit_breaker.last_failure_time # None
       /\ circuit_breaker.state = HALF_OPEN =>
             circuit_breaker.success_count < HALF_OPEN_SUCCESSES

\* the breaker has opened, recovered through Half-Open, closed again and
\* now stands one failure short of opening
C36_Witness ==
    /\ circuit_breaker.enabled
    /\ circuit_breaker.state = CLOSED
    /\ circuit_breaker.state_transitions >= 3
    /\ circuit_breaker.failure_count = CIRCUIT_BREAKER_THRESHOLD - 1
    /\ circuit_breaker.failure_count > 0

\* ------------------------------------------------------------------------
\* C37: on the enabled breaker in Open, a record_failure leaves the state
\* Open and sets last_failure_time to the present; a record_success leaves
\* state and counters as they were; and can_make_request is refused exactly
\* while less than CIRCUIT_RESET_SECONDS have passed since the most recent
\* record_failure.
\* ------------------------------------------------------------------------
C37_OpenPeriodFollowsLastFailure ==
    [][(BreakerStep /\ circuit_breaker.enabled /\ circuit_breaker.state = OPEN) =>
         /\ cbHist'.op = "record_failure" =>
               /\ circuit_breaker'.state = OPEN
               /\ circuit_breaker'.last_failure_time = Some(now)
         /\ cbHist'.op = "record_success" =>
               circuit_breaker' = circuit_breaker
         /\ cbHist'.op = "can_make_request" =>
               (~cbHist'.ret <=>
                   now - circuit_breaker.last_failure_time[1]
                      < CIRCUIT_RESET_SECONDS)]_vars

\* a request was refused although the breaker had opened at least
\* CIRCUIT_RESET_SECONDS before: a failure recorded in between had moved
\* the instant on
C37_Witness ==
    /\ circuit_breaker.state = OPEN
    /\ cbHist.op = "can_make_request" /\ ~cbHist.ret
    /\ now - cbHist.opened_at >= CIRCUIT_RESET_SECONDS
    /\ circuit_breaker.last_failure_time[1] > cbHist.opened_at

\* ------------------------------------------------------------------------
\* C38: in every state of the health monitor the healthy set, and the list
\* get_healthy_endpoint indexes, hold exactly the endpoints whose record is
\* Healthy, and no record has both consecutive_successes and
\* consecutive_failures above zero.
\* ------------------------------------------------------------------------
C38_HealthySetMirrorsStatus ==
    /\ health_monitor.healthy_nodes =
          {e \in Range(Endpoints) : StatusOf(health_monitor, e) = HEALTHY}
    /\ Range(health_monitor.healthy_list) = health_monitor.healthy_nodes
    /\ Len(health_monitor.healthy_list) = Cardinality(health_monitor.healthy_nodes)
    /\ \A e \in Range(Endpoints) :
          \/ health_monitor.nodes[e].consecutive_successes = 0
          \/ health_monitor.nodes[e].consecutive_failures = 0

\* one endpoint is Healthy, and another one, which was Healthy before, is
\* Unhealthy and out of the set
C38_Witness ==
    \E e, f \in Range(Endpoints) :
       /\ StatusOf(health_monitor, e) = HEALTHY
       /\ StatusOf(health_monitor, f) = UNHEALTHY
       /\ hmHist.changes[f] = 2
       /\ health_monitor.healthy_nodes = {e}

\* ------------------------------------------------------------------------
\* C39: a rotation made by the periodic task leaves the expiry in the
\* future, and a rotation that failed is attempted again: when rotate_keys
\* ends in an error the keys are still due, so that the task's next check
\* calls rotate_keys again.
\* ------------------------------------------------------------------------
RotationFailed(kh) == kh.op = "rotate_keys" /\ kh.ret # Some(SAVED)

C39_FailedRotationIsRetried ==
    [][RotationStep =>
         /\ RotationFailed(keyHist') => ShouldRotateKeys(hpke_service', now)
         /\ ~RotationFailed(keyHist') => ~ShouldRotateKeys(hpke_service', now)]_vars

\* ------------------------------------------------------------------------
\* C40: right after every hundredth admitted request, neither map of the
\* rate limiter holds an identifier whose window has no timestamp of the
\* last minute.
\* ------------------------------------------------------------------------
HasRecent(window, t) == PopExpired(window, t - WINDOW_SECONDS) # <<>>

C40_NoIdleIdentifierAfterCleanup ==
    [][(AllowStep /\ rate_limiter.enabled /\ rlHist'.ret
          /\ rlHist'.admits % CLEANUP_EVERY = 0) =>
         /\ \A a \in DOMAIN rate_limiter'.ip_windows :
               HasRecent(rate_limiter'.ip_windows[a], now)
         /\ \A d \in DOMAIN rate_limiter'.device_windows :
               HasRecent(rate_limiter'.device_windows[d], now)]_vars

====
